---- MODULE Spec2Model ----
(***************************************************************************)
(* record-release: a GitHub Action whose main phase (src/index.ts) and     *)
(* cleanup phase (post.ts) coordinate a release across CI jobs.  Jobs of   *)
(* one workflow run share only the artifact store (BlobChannel) and the    *)
(* remote ledger; the two phases of one job share only the job's saved     *)
(* state (core.saveState / core.getState).                                 *)
(***************************************************************************)
EXTENDS Integers, Sequences, FiniteSets, TLC

(***************************************************************************)
(* Bounds of the model.                                                    *)
(***************************************************************************)
\* number of job invocations of one workflow run
MaxJobs == 3

JobIds == 1 .. MaxJobs

(***************************************************************************)
(* Program constants.                                                      *)
(***************************************************************************)
SESSION_ARTIFACT_NAME == "record-release-session"

ARTIFACTS_ARTIFACT_NAME == "record-release-artifacts"

ARTIFACTS_ARTIFACT_PREFIX == "record-release-artifacts-"

validEnvs == {"production", "staging", "development"}

validBumps == {"major", "minor", "patch"}

\* the value of a JavaScript property that is not there
Undefined == "<undefined>"

\* github.context.sha and github.context.payload.head_commit.message of a job
ContextSha == "c0ffee"

ContextMessage == <<"ctx subject", "ctx body">>

(***************************************************************************)
(* JavaScript values.  A multi-line string is the sequence of its lines,   *)
(* the empty string being the empty sequence; an object is a function from *)
(* its keys.                                                               *)
(***************************************************************************)
\* s.split('\n')[0]
FirstLine(s) == IF s = <<>> THEN "" ELSE s[1]

\* a || b on strings
OrElse(a, b) == IF a \notin {"", Undefined} THEN a ELSE b

\* obj.k
Prop(obj, k) == IF k \in DOMAIN obj THEN obj[k] ELSE Undefined

\* obj.k where a boolean is expected: a missing property is falsy
PropB(obj, k) == IF k \in DOMAIN obj THEN obj[k] ELSE FALSE

\* JSON.stringify(obj): the properties in literal order, those whose value
\* is undefined left out.  opt names the properties that can be undefined.
JSONStringify(obj, order, opt) ==
    LET keep(k) == ~(k \in opt /\ obj[k] = Undefined)
        kept == SelectSeq(order, keep)
    IN  [i \in 1 .. Len(kept) |-> <<kept[i], obj[kept[i]]>>]

\* JSON.parse(text)
JSONParse(text) ==
    LET keys == {text[i][1] : i \in 1 .. Len(text)}
    IN  [k \in keys |-> LET i == CHOOSE n \in 1 .. Len(text) :
                                    /\ text[n][1] = k
                                    /\ \A m \in n + 1 .. Len(text) : text[m][1] # k
                        IN  text[i][2]]

(***************************************************************************)
(* The remote ledger (POST {api-url}/webhook/deploy, GET .../version).     *)
(* It keeps the deployed version of each environment; a dry run computes   *)
(* the next version and writes nothing.                                    *)
(***************************************************************************)
ApplicationName == "ops-app"

\* the ledger's state when the workflow run starts: every environment at 1.2.3
LedgerStart == [e \in validEnvs |-> <<1, 2, 3>>]

Bump(v, b) ==
    CASE b = "major" -> <<v[1] + 1, 0, 0>>
      [] b = "minor" -> <<v[1], v[2] + 1, 0>>
      [] OTHER -> <<v[1], v[2], v[3] + 1>>

Fmt(v) == ToString(v[1]) \o "." \o ToString(v[2]) \o "." \o ToString(v[3])

\* every version the ledger can hold within MaxJobs writes
VersionSpace == (0 .. MaxJobs + 3) \X (0 .. MaxJobs + 3) \X (0 .. MaxJobs + 3)

\* the version strings the ledger understands
VersionNames == {Fmt(v) : v \in VersionSpace}

ParseTable == [s \in VersionNames |-> CHOOSE v \in VersionSpace : Fmt(v) = s]

IsVersion(s) == s \in VersionNames

ParseVersion(s) == ParseTable[s]

ApiError(code, error) == "API error (" \o code \o "): " \o error

\* The answer to POST /webhook/deploy with the parsed body b; accept says
\* whether the ledger answers 2xx.
LedgerDeploy(led, b, accept) ==
    LET env == Prop(b, "environment")
        dry == PropB(b, "dryRun")
        ver == IF Prop(b, "version") # Undefined
               THEN b.version
               ELSE IF env \in validEnvs
                    THEN Fmt(Bump(led[env], OrElse(Prop(b, "bump"), "patch")))
                    ELSE ""
    IN  IF ~accept \/ env \notin validEnvs \/ ~IsVersion(ver)
           \/ (Prop(b, "bump") # Undefined /\ b.bump \notin validBumps)
        THEN [ok |-> FALSE, code |-> "BAD_REQUEST", error |-> "rejected",
              led |-> led]
        ELSE IF dry
        THEN [ok |-> TRUE, dryRun |-> TRUE, version |-> ver, environment |-> env,
              applicationName |-> ApplicationName, led |-> led]
        ELSE [ok |-> TRUE, dryRun |-> FALSE, version |-> ver, environment |-> env,
              applicationName |-> ApplicationName,
              id |-> "dep-" \o env \o "-" \o ver,
              led |-> [led EXCEPT ![env] = ParseVersion(ver)]]

\* The answer to GET /webhook/version?environment=env
LedgerVersion(led, env, accept) ==
    IF ~accept \/ env \notin validEnvs
    THEN [ok |-> FALSE, code |-> "BAD_REQUEST", error |-> "rejected"]
    ELSE [ok |-> TRUE, version |-> Fmt(led[env]), environment |-> env,
          deployedAt |-> "t-" \o Fmt(led[env]), commitHash |-> ContextSha]

(***************************************************************************)
(* The job's workspace: glob matching and file names.  A path is the       *)
(* sequence of its segments.                                               *)
(***************************************************************************)
LinuxZip == <<"dist", "app-linux.zip">>

MacosZip == <<"dist", "app-macos.zip">>

\* glob(pattern)
Glob(pattern) ==
    CASE pattern = "dist/app-linux.zip" -> <<LinuxZip>>
      [] pattern = "dist/app-macos.zip" -> <<MacosZip>>
      [] pattern = "dist/*.zip" -> <<LinuxZip, MacosZip>>
      [] OTHER -> <<>>

\* p.trim()
Trim(p) == IF p \in {" ", "  "} THEN "" ELSE p

\* path.basename(file)
Basename(file) == file[Len(file)]

RECURSIVE Flatten(_)
Flatten(ss) == IF ss = <<>> THEN <<>> ELSE Head(ss) \o Flatten(Tail(ss))

\* patterns.split('\n').map(p => p.trim()).filter(p => p)
PatternList(patterns) ==
    SelectSeq([i \in 1 .. Len(patterns) |-> Trim(patterns[i])],
              LAMBDA p : p # "")

\* MatchFiles that gives up at the first pattern without a match
RECURSIVE MatchUntilEmpty(_)
MatchUntilEmpty(pl) ==
    IF pl = <<>> \/ Glob(Head(pl)) = <<>> THEN <<>>
    ELSE Glob(Head(pl)) \o MatchUntilEmpty(Tail(pl))

MatchFilesStopsAtEmpty(patterns) == MatchUntilEmpty(PatternList(patterns))

\* the files matched by each pattern in turn, a pattern without a match
\* adding nothing
MatchFiles(patterns) ==
    LET pl == PatternList(patterns)
    IN  Flatten([i \in 1 .. Len(pl) |-> Glob(pl[i])])

(***************************************************************************)
(* State.                                                                  *)
(***************************************************************************)
VARIABLES
    jobs,     \* the job invocations of the workflow run
    store,    \* BlobChannel: artifact name -> bundle (the files uploaded)
    ledger,   \* environment -> deployed version
    uuids,    \* how many UUIDs crypto.randomUUID() has handed out
    secrets   \* an encrypted secret, and what decryptSecret made of it

vars == <<jobs, store, ledger, uuids, secrets>>

\* core.getState(k) of a key never saved is ''
EmptyState ==
    [skip |-> "", mode |-> "", artifacts |-> <<>>, session |-> <<>>,
     token |-> "", apiUrl |-> "", environment |-> "", version |-> "",
     applicationName |-> "", commitHash |-> "", commitMessage |-> "",
     deployedBy |-> "", skipGithubRelease |-> "", releasePrefix |-> "",
     githubToken |-> "", body |-> "", draft |-> "", prerelease |-> ""]

NoOutputs == [version |-> "", id |-> "", deployedAt |-> "", commitHash |-> ""]

\* core.getInput(k) of an input not provided is ''
NoInput ==
    [token |-> "", environment |-> "", version |-> "", bump |-> "",
     apiUrl |-> "", dryRun |-> "", getVersion |-> "", skipGithubRelease |-> "",
     releasePrefix |-> "", githubToken |-> "", body |-> "", bodyFile |-> "",
     draft |-> "", prerelease |-> "", artifacts |-> <<>>, commitHash |-> "",
     commitMessage |-> <<>>, deployedBy |-> "", secretKey |-> ""]

\* a job invocation: its inputs, what its main phase saved for its cleanup
\* phase, and what the two phases did
IdleJob ==
    [phase |-> "idle", in |-> NoInput, mode |-> "", state |-> EmptyState,
     mainFailed |-> "", postFailed |-> "", outputs |-> NoOutputs,
     reqs |-> <<>>, blob |-> <<>>, releases |-> <<>>, steps |-> "success",
     warnings |-> <<>>]

\* what one phase does: what it adds to its job, and the ledger after it
Effect(led) ==
    [state |-> EmptyState, failed |-> "", outputs |-> NoOutputs, reqs |-> <<>>,
     blob |-> <<>>, releases |-> <<>>, led |-> led]

(***************************************************************************)
(* Requests to the ledger.                                                 *)
(***************************************************************************)
DeployKeys ==
    <<"environment", "version", "bump", "dryRun", "commitHash", "commitMessage",
      "deployedBy", "gitTag">>

\* the string properties of a deploy body, each left out by JSON.stringify
\* when undefined
DeployOptional ==
    {"environment", "version", "bump", "commitHash", "commitMessage",
     "deployedBy", "gitTag"}

\* fetch(`${apiUrl}/webhook/deploy`, {method: 'POST', ..., body: JSON.stringify(obj)})
PostDeploy(apiUrl, token, obj) ==
    [method |-> "POST", url |-> apiUrl \o "/webhook/deploy", token |-> token,
     body |-> JSONStringify(obj,
                  SelectSeq(DeployKeys, LAMBDA k : k \in DOMAIN obj),
                  DeployOptional)]

\* fetch(`${apiUrl}/webhook/version?environment=${environment}`, {method: 'GET'})
GetVersion(apiUrl, token, environment) ==
    [method |-> "GET",
     url |-> apiUrl \o "/webhook/version?environment=" \o environment,
     token |-> token, body |-> <<>>]

\* a request as the job's log keeps it: with response.ok of its response
Sent(req, response) ==
    [method |-> req.method, url |-> req.url, token |-> req.token,
     body |-> req.body, ok |-> response.ok]

\* a request that asks the ledger to record a release
IsWrite(req) ==
    /\ req.method = "POST"
    /\ ~PropB(JSONParse(req.body), "dryRun")

IsDryRun(req) ==
    /\ req.method = "POST"
    /\ PropB(JSONParse(req.body), "dryRun")

Writes(rs) == SelectSeq(rs, IsWrite)

DryRuns(rs) == SelectSeq(rs, IsDryRun)

\* `${prefix}-v${version}` with prefix = releasePrefix || applicationName
GitTag(releasePrefix, applicationName, version) ==
    OrElse(releasePrefix, applicationName) \o "-v" \o version

(***************************************************************************)
(* BlobChannel (the artifact client): listArtifacts, downloadArtifact,     *)
(* uploadArtifact.  A bundle is the sequence of its files, each a path and *)
(* its content.                                                            *)
(***************************************************************************)
SESSION_DOWNLOAD_PATH == "/tmp/record-release-session"

ARTIFACTS_DOWNLOAD_PATH == "/tmp/record-release-artifacts"

SessionKeys ==
    <<"environment", "version", "applicationName", "apiUrl", "releasePrefix",
      "skipGithubRelease", "body", "draft", "prerelease", "commitHash",
      "commitMessage", "deployedBy">>

\* releasePrefix: releasePrefix || undefined, body: releaseBody || undefined
SessionOptional == {"releasePrefix", "body"}

\* what can go wrong when a bundle is fetched
SessionFaults == {"ok", "listThrows", "noPath", "noFile", "badJson"}

ArtifactFaults == {"ok", "listThrows", "noPath"}

UploadFaults == {"ok", "uploadThrows"}

\* artifact.uploadArtifact(name, files, rootDir): the bundle registered last
\* under a name is the one a later list returns
UploadArtifact(st, name, bundle) == (name :> bundle) @@ st

\* artifacts.find(a => a.name === name)
FindArtifact(st, name) == name \in DOMAIN st

\* downloadSession that returns an empty Session when none is published
downloadSessionEmptyWhenAbsent(st, fault) ==
    LET none == [ok |-> FALSE, session |-> <<>>]
        list == <<[op |-> "list", name |-> ""]>>
        get  == list \o <<[op |-> "download", name |-> SESSION_ARTIFACT_NAME]>>
    IN  IF fault = "listThrows" THEN none @@ [blob |-> list]
        ELSE IF ~FindArtifact(st, SESSION_ARTIFACT_NAME)
        THEN [ok |-> TRUE, session |-> <<>>, blob |-> list]
        ELSE IF fault = "noPath" THEN none @@ [blob |-> get]
        ELSE LET files == st[SESSION_ARTIFACT_NAME]
                 at == {i \in 1 .. Len(files) : files[i].path = <<"session.json">>}
             IN  IF fault = "noFile" \/ at = {} THEN none @@ [blob |-> get]
                 ELSE IF fault = "badJson" THEN none @@ [blob |-> get]
                 ELSE [ok |-> TRUE,
                       session |-> JSONParse(files[CHOOSE i \in at : TRUE].data),
                       blob |-> get]

\* downloadSession that hands its caller whatever JSON.parse made of a
\* session.json that does not parse
downloadSessionUnparsed(st, fault) ==
    LET none == [ok |-> FALSE, session |-> <<>>]
        list == <<[op |-> "list", name |-> ""]>>
        get  == list \o <<[op |-> "download", name |-> SESSION_ARTIFACT_NAME]>>
    IN  IF fault = "listThrows" THEN none @@ [blob |-> list]
        ELSE IF ~FindArtifact(st, SESSION_ARTIFACT_NAME) THEN none @@ [blob |-> list]
        ELSE IF fault = "noPath" THEN none @@ [blob |-> get]
        ELSE LET files == st[SESSION_ARTIFACT_NAME]
                 at == {i \in 1 .. Len(files) : files[i].path = <<"session.json">>}
             IN  IF fault = "noFile" \/ at = {} THEN none @@ [blob |-> get]
                 ELSE IF fault = "badJson"
                 THEN [ok |-> TRUE, session |-> <<>>, blob |-> get]
                 ELSE [ok |-> TRUE,
                       session |-> JSONParse(files[CHOOSE i \in at : TRUE].data),
                       blob |-> get]

\* downloadSession(): the Session a previous job published, or null (ok = FALSE)
downloadSession(st, fault) ==
    LET none == [ok |-> FALSE, session |-> <<>>]
        list == <<[op |-> "list", name |-> ""]>>
        get  == list \o <<[op |-> "download", name |-> SESSION_ARTIFACT_NAME]>>
    IN  IF fault = "listThrows" THEN none @@ [blob |-> list]
        ELSE IF ~FindArtifact(st, SESSION_ARTIFACT_NAME) THEN none @@ [blob |-> list]
        ELSE IF fault = "noPath" THEN none @@ [blob |-> get]
        ELSE LET files == st[SESSION_ARTIFACT_NAME]
                 at == {i \in 1 .. Len(files) : files[i].path = <<"session.json">>}
             IN  IF fault = "noFile" \/ at = {} THEN none @@ [blob |-> get]
                 ELSE IF fault = "badJson" THEN none @@ [blob |-> get]
                 ELSE [ok |-> TRUE,
                       session |-> JSONParse(files[CHOOSE i \in at : TRUE].data),
                       blob |-> get]

\* downloadStoredArtifacts(): the files of the stored artifact bundle
downloadStoredArtifacts(st, fault) ==
    LET list == <<[op |-> "list", name |-> ""]>>
        get  == list \o <<[op |-> "download", name |-> ARTIFACTS_ARTIFACT_NAME]>>
    IN  IF fault = "listThrows" THEN [files |-> <<>>, blob |-> list]
        ELSE IF ~FindArtifact(st, ARTIFACTS_ARTIFACT_NAME)
        THEN [files |-> <<>>, blob |-> list]
        ELSE IF fault = "noPath" THEN [files |-> <<>>, blob |-> get]
        ELSE LET files == st[ARTIFACTS_ARTIFACT_NAME]
             IN  [files |-> [i \in 1 .. Len(files) |->
                                <<ARTIFACTS_DOWNLOAD_PATH>> \o files[i].path],
                  blob |-> get]

(***************************************************************************)
(* ReleasePublisher: createGithubRelease of the main phase.                *)
(***************************************************************************)
\* what can go wrong: creating the release, or uploading the first or the
\* second asset
ReleaseFaults == {"ok", "createThrows", "asset1Throws", "asset2Throws"}

\* how many of n assets are uploaded before the fault strikes
AssetsUploaded(n, fault) ==
    CASE fault = "asset1Throws" -> 0
      [] fault = "asset2Throws" -> IF n < 1 THEN n ELSE 1
      [] OTHER -> n

\* createGithubRelease that goes on to the next asset when an upload throws
createGithubReleaseSkipsFailed(options, fault) ==
    IF fault = "createThrows" THEN <<>>
    ELSE LET filesToUpload == MatchFiles(options.artifacts) \o options.artifactFiles
             failed == CASE fault = "asset1Throws" -> 1
                         [] fault = "asset2Throws" -> 2
                         [] OTHER -> 0
             kept == SelectSeq([i \in DOMAIN filesToUpload |-> <<i, filesToUpload[i]>>],
                               LAMBDA e : e[1] # failed)
         IN  <<[tag_name |-> options.tag, name |-> options.tag,
                body |-> OrElse(options.body, Undefined),
                draft |-> options.draft, prerelease |-> options.prerelease,
                generate_release_notes |-> options.body \in {"", Undefined},
                assets |-> [i \in DOMAIN kept |-> Basename(kept[i][2])]]>>

\* createGithubRelease(options): the releases created (none or one)
createGithubRelease(options, fault) ==
    IF fault = "createThrows" THEN <<>>
    ELSE LET filesToUpload == MatchFiles(options.artifacts) \o options.artifactFiles
             n == AssetsUploaded(Len(filesToUpload), fault)
         IN  <<[tag_name |-> options.tag, name |-> options.tag,
                body |-> OrElse(options.body, Undefined),
                draft |-> options.draft, prerelease |-> options.prerelease,
                generate_release_notes |-> options.body \in {"", Undefined},
                assets |-> [i \in 1 .. n |-> Basename(filesToUpload[i])]]>>

(***************************************************************************)
(* The main phase: run() of src/index.ts.                                  *)
(***************************************************************************)
\* core.getInput(k) === 'true'
IsTrue(raw) == raw = "true"

\* fs.readFileSync(bodyFile, 'utf-8'); Undefined when the read throws
ReadFile(file) == IF file = "CHANGELOG.md" THEN "## Changelog" ELSE Undefined

\* the release body: the body input, else the content of body-file
ReleaseBody(in) ==
    IF in.body = "" /\ in.bodyFile # "" /\ ReadFile(in.bodyFile) # Undefined
    THEN ReadFile(in.bodyFile)
    ELSE in.body

\* core.getInput('commit-hash') || github.context.sha
CommitHash(in) == OrElse(in.commitHash, ContextSha)

\* (core.getInput('commit-message') || head_commit?.message || '').split('\n')[0]
CommitSubject(in) ==
    FirstLine(IF in.commitMessage # <<>> THEN in.commitMessage ELSE ContextMessage)

\* core.getInput('bump') || 'patch'
BumpOf(in) == OrElse(in.bump, "patch")

\* ModeResolver without the test of the environment against validEnvs
ModeResolverAnyEnvironment(in) ==
    IF in.token = "" /\ in.artifacts # <<>> THEN "Upload"
    ELSE IF in.token = "" THEN "TokenRequired"
    ELSE IF /\ in.environment = ""
            /\ in.version = ""
            /\ ~IsTrue(in.dryRun)
            /\ ~IsTrue(in.getVersion) THEN "Finalize"
    ELSE IF in.environment = "" THEN "EnvironmentRequired"
    ELSE IF IsTrue(in.getVersion) THEN "QueryVersion"
    ELSE IF in.version = "" /\ BumpOf(in) \notin validBumps THEN "InvalidBump"
    ELSE IF IsTrue(in.dryRun) THEN "Init"
    ELSE IF in.version # "" THEN "Explicit"
    ELSE "SingleJob"

\* ModeResolver that looks for get-version after dry-run and version
ModeResolverGetVersionLast(in) ==
    IF in.token = "" /\ in.artifacts # <<>> THEN "Upload"
    ELSE IF in.token = "" THEN "TokenRequired"
    ELSE IF /\ in.environment = ""
            /\ in.version = ""
            /\ ~IsTrue(in.dryRun)
            /\ ~IsTrue(in.getVersion) THEN "Finalize"
    ELSE IF in.environment = "" THEN "EnvironmentRequired"
    ELSE IF in.environment \notin validEnvs THEN "InvalidEnvironment"
    ELSE IF in.version = "" /\ BumpOf(in) \notin validBumps THEN "InvalidBump"
    ELSE IF IsTrue(in.dryRun) THEN "Init"
    ELSE IF in.version # "" THEN "Explicit"
    ELSE IF IsTrue(in.getVersion) THEN "QueryVersion"
    ELSE "SingleJob"

\* ModeResolver that requires the token before it looks for Upload mode
ModeResolverTokenFirst(in) ==
    IF in.token = "" THEN "TokenRequired"
    ELSE IF in.token = "" /\ in.artifacts # <<>> THEN "Upload"
    ELSE IF /\ in.environment = ""
            /\ in.version = ""
            /\ ~IsTrue(in.dryRun)
            /\ ~IsTrue(in.getVersion) THEN "Finalize"
    ELSE IF in.environment = "" THEN "EnvironmentRequired"
    ELSE IF in.environment \notin validEnvs THEN "InvalidEnvironment"
    ELSE IF IsTrue(in.getVersion) THEN "QueryVersion"
    ELSE IF in.version = "" /\ BumpOf(in) \notin validBumps THEN "InvalidBump"
    ELSE IF IsTrue(in.dryRun) THEN "Init"
    ELSE IF in.version # "" THEN "Explicit"
    ELSE "SingleJob"

\* ModeResolver that requires the environment only in the modes that record
ModeResolverEnvironmentLate(in) ==
    IF in.token = "" /\ in.artifacts # <<>> THEN "Upload"
    ELSE IF in.token = "" THEN "TokenRequired"
    ELSE IF /\ in.environment = ""
            /\ in.version = ""
            /\ ~IsTrue(in.dryRun)
            /\ ~IsTrue(in.getVersion) THEN "Finalize"
    ELSE IF IsTrue(in.getVersion) THEN "QueryVersion"
    ELSE IF in.environment = "" THEN "EnvironmentRequired"
    ELSE IF in.environment \notin validEnvs THEN "InvalidEnvironment"
    ELSE IF in.version = "" /\ BumpOf(in) \notin validBumps THEN "InvalidBump"
    ELSE IF IsTrue(in.dryRun) THEN "Init"
    ELSE IF in.version # "" THEN "Explicit"
    ELSE "SingleJob"

\* ModeResolver without the test for a missing token
ModeResolverNoTokenCheck(in) ==
    IF in.token = "" /\ in.artifacts # <<>> THEN "Upload"
    ELSE IF /\ in.environment = ""
            /\ in.version = ""
            /\ ~IsTrue(in.dryRun)
            /\ ~IsTrue(in.getVersion) THEN "Finalize"
    ELSE IF in.environment = "" THEN "EnvironmentRequired"
    ELSE IF in.environment \notin validEnvs THEN "InvalidEnvironment"
    ELSE IF IsTrue(in.getVersion) THEN "QueryVersion"
    ELSE IF in.version = "" /\ BumpOf(in) \notin validBumps THEN "InvalidBump"
    ELSE IF IsTrue(in.dryRun) THEN "Init"
    ELSE IF in.version # "" THEN "Explicit"
    ELSE "SingleJob"

\* ModeResolver that requires the environment before it looks for Finalize mode
ModeResolverEnvironmentFirst(in) ==
    IF in.token = "" /\ in.artifacts # <<>> THEN "Upload"
    ELSE IF in.token = "" THEN "TokenRequired"
    ELSE IF in.environment = "" THEN "EnvironmentRequired"
    ELSE IF /\ in.environment = ""
            /\ in.version = ""
            /\ ~IsTrue(in.dryRun)
            /\ ~IsTrue(in.getVersion) THEN "Finalize"
    ELSE IF in.environment \notin validEnvs THEN "InvalidEnvironment"
    ELSE IF IsTrue(in.getVersion) THEN "QueryVersion"
    ELSE IF in.version = "" /\ BumpOf(in) \notin validBumps THEN "InvalidBump"
    ELSE IF IsTrue(in.dryRun) THEN "Init"
    ELSE IF in.version # "" THEN "Explicit"
    ELSE "SingleJob"

\* The branch run() takes, its conditions tested in the order of the code.
ModeResolver(in) ==
    IF in.token = "" /\ in.artifacts # <<>> THEN "Upload"
    ELSE IF in.token = "" THEN "TokenRequired"
    ELSE IF /\ in.environment = ""
            /\ in.version = ""
            /\ ~IsTrue(in.dryRun)
            /\ ~IsTrue(in.getVersion) THEN "Finalize"
    ELSE IF in.environment = "" THEN "EnvironmentRequired"
    ELSE IF in.environment \notin validEnvs THEN "InvalidEnvironment"
    ELSE IF IsTrue(in.getVersion) THEN "QueryVersion"
    ELSE IF in.version = "" /\ BumpOf(in) \notin validBumps THEN "InvalidBump"
    ELSE IF IsTrue(in.dryRun) THEN "Init"
    ELSE IF in.version # "" THEN "Explicit"
    ELSE "SingleJob"

\* the message of the error a validation branch throws
ValidationError(in) ==
    CASE ModeResolver(in) = "TokenRequired" -> "token is required"
      [] ModeResolver(in) = "EnvironmentRequired" -> "environment is required"
      [] ModeResolver(in) = "InvalidEnvironment" ->
            "Invalid environment: " \o in.environment
                \o ". Must be one of: production, staging, development"
      [] ModeResolver(in) = "InvalidBump" ->
            "Invalid bump: " \o BumpOf(in) \o ". Must be one of: major, minor, patch"
      [] OTHER -> ""

\* Upload mode: nothing but saved state
UploadMode(in, led) ==
    [Effect(led) EXCEPT
        !.state = [EmptyState EXCEPT !.skip = "false",
                                     !.mode = "upload-artifacts",
                                     !.artifacts = in.artifacts]]

\* FinalizeMode that takes the environment of the write from its own input
\* instead of the Session
FinalizeModeOwnEnvironment(in, st, led, f) ==
    LET got == downloadSession(st, f.session)
        session == got.session
        stored == downloadStoredArtifacts(st, f.artifacts)
        gitTag == GitTag(Prop(session, "releasePrefix"),
                         Prop(session, "applicationName"), Prop(session, "version"))
        req == PostDeploy(Prop(session, "apiUrl"), in.token,
                   [environment |-> in.environment,
                    version |-> Prop(session, "version"),
                    commitHash |-> Prop(session, "commitHash"),
                    commitMessage |-> Prop(session, "commitMessage"),
                    deployedBy |-> Prop(session, "deployedBy"),
                    gitTag |-> gitTag])
        result == LedgerDeploy(led, JSONParse(req.body), f.api)
    IN  IF ~got.ok
        THEN [Effect(led) EXCEPT
                !.failed = "No session found. Run with environment and dry-run: true first.",
                !.blob = got.blob]
        ELSE IF ~result.ok
        THEN [Effect(led) EXCEPT
                !.failed = ApiError(result.code, result.error),
                !.reqs = <<Sent(req, result)>>,
                !.blob = got.blob \o stored.blob]
        ELSE [Effect(led) EXCEPT
                !.state = [EmptyState EXCEPT !.skip = "true"],
                !.outputs = [NoOutputs EXCEPT !.version = result.version,
                                              !.id = result.id],
                !.reqs = <<Sent(req, result)>>,
                !.blob = got.blob \o stored.blob,
                !.releases =
                    IF ~PropB(session, "skipGithubRelease") /\ in.githubToken # ""
                    THEN createGithubRelease(
                             [githubToken |-> in.githubToken, tag |-> gitTag,
                              body |-> Prop(session, "body"),
                              draft |-> PropB(session, "draft"),
                              prerelease |-> PropB(session, "prerelease"),
                              artifacts |-> <<>>,
                              artifactFiles |-> stored.files], f.release)
                    ELSE <<>>,
                !.led = result.led]

\* FinalizeMode that sends its write to the api-url input of its own job
FinalizeModeOwnApiUrl(in, st, led, f) ==
    LET got == downloadSession(st, f.session)
        session == got.session
        stored == downloadStoredArtifacts(st, f.artifacts)
        gitTag == GitTag(Prop(session, "releasePrefix"),
                         Prop(session, "applicationName"), Prop(session, "version"))
        req == PostDeploy(in.apiUrl, in.token,
                   [environment |-> Prop(session, "environment"),
                    version |-> Prop(session, "version"),
                    commitHash |-> Prop(session, "commitHash"),
                    commitMessage |-> Prop(session, "commitMessage"),
                    deployedBy |-> Prop(session, "deployedBy"),
                    gitTag |-> gitTag])
        result == LedgerDeploy(led, JSONParse(req.body), f.api)
    IN  IF ~got.ok
        THEN [Effect(led) EXCEPT
                !.failed = "No session found. Run with environment and dry-run: true first.",
                !.blob = got.blob]
        ELSE IF ~result.ok
        THEN [Effect(led) EXCEPT
                !.failed = ApiError(result.code, result.error),
                !.reqs = <<Sent(req, result)>>,
                !.blob = got.blob \o stored.blob]
        ELSE [Effect(led) EXCEPT
                !.state = [EmptyState EXCEPT !.skip = "true"],
                !.outputs = [NoOutputs EXCEPT !.version = result.version,
                                              !.id = result.id],
                !.reqs = <<Sent(req, result)>>,
                !.blob = got.blob \o stored.blob,
                !.releases =
                    IF ~PropB(session, "skipGithubRelease") /\ in.githubToken # ""
                    THEN createGithubRelease(
                             [githubToken |-> in.githubToken, tag |-> gitTag,
                              body |-> Prop(session, "body"),
                              draft |-> PropB(session, "draft"),
                              prerelease |-> PropB(session, "prerelease"),
                              artifacts |-> <<>>,
                              artifactFiles |-> stored.files], f.release)
                    ELSE <<>>,
                !.led = result.led]

\* Finalize mode: resume the Session, record the release, create the release
FinalizeMode(in, st, led, f) ==
    LET got == downloadSession(st, f.session)
        session == got.session
        stored == downloadStoredArtifacts(st, f.artifacts)
        gitTag == GitTag(Prop(session, "releasePrefix"),
                         Prop(session, "applicationName"), Prop(session, "version"))
        req == PostDeploy(Prop(session, "apiUrl"), in.token,
                   [environment |-> Prop(session, "environment"),
                    version |-> Prop(session, "version"),
                    commitHash |-> Prop(session, "commitHash"),
                    commitMessage |-> Prop(session, "commitMessage"),
                    deployedBy |-> Prop(session, "deployedBy"),
                    gitTag |-> gitTag])
        result == LedgerDeploy(led, JSONParse(req.body), f.api)
    IN  IF ~got.ok
        THEN [Effect(led) EXCEPT
                !.failed = "No session found. Run with environment and dry-run: true first.",
                !.blob = got.blob]
        ELSE IF ~result.ok
        THEN [Effect(led) EXCEPT
                !.failed = ApiError(result.code, result.error),
                !.reqs = <<Sent(req, result)>>,
                !.blob = got.blob \o stored.blob]
        ELSE [Effect(led) EXCEPT
                !.state = [EmptyState EXCEPT !.skip = "true"],
                !.outputs = [NoOutputs EXCEPT !.version = result.version,
                                              !.id = result.id],
                !.reqs = <<Sent(req, result)>>,
                !.blob = got.blob \o stored.blob,
                !.releases =
                    IF ~PropB(session, "skipGithubRelease") /\ in.githubToken # ""
                    THEN createGithubRelease(
                             [githubToken |-> in.githubToken, tag |-> gitTag,
                              body |-> Prop(session, "body"),
                              draft |-> PropB(session, "draft"),
                              prerelease |-> PropB(session, "prerelease"),
                              artifacts |-> <<>>,
                              artifactFiles |-> stored.files], f.release)
                    ELSE <<>>,
                !.led = result.led]

\* QueryVersionMode that saves skip = true before it looks at the response
QueryVersionModeSavesFirst(in, led, f) ==
    LET req == GetVersion(in.apiUrl, in.token, in.environment)
        result == LedgerVersion(led, in.environment, f.api)
    IN  IF ~result.ok
        THEN [Effect(led) EXCEPT !.failed = ApiError(result.code, result.error),
                              !.state = [EmptyState EXCEPT !.skip = "true"],
                              !.reqs = <<Sent(req, result)>>]
        ELSE [Effect(led) EXCEPT
                !.state = [EmptyState EXCEPT !.skip = "true"],
                !.outputs = [NoOutputs EXCEPT !.version = result.version,
                                              !.deployedAt = result.deployedAt,
                                              !.commitHash = result.commitHash],
                !.reqs = <<Sent(req, result)>>]

\* Mode 1: get the current version
QueryVersionMode(in, led, f) ==
    LET req == GetVersion(in.apiUrl, in.token, in.environment)
        result == LedgerVersion(led, in.environment, f.api)
    IN  IF ~result.ok
        THEN [Effect(led) EXCEPT !.failed = ApiError(result.code, result.error),
                              !.reqs = <<Sent(req, result)>>]
        ELSE [Effect(led) EXCEPT
                !.state = [EmptyState EXCEPT !.skip = "true"],
                !.outputs = [NoOutputs EXCEPT !.version = result.version,
                                              !.deployedAt = result.deployedAt,
                                              !.commitHash = result.commitHash],
                !.reqs = <<Sent(req, result)>>]

\* SessionData that takes the version from the version input
SessionDataInputVersion(in, result) ==
    [environment |-> in.environment,
     version |-> in.version,
     applicationName |-> result.applicationName,
     apiUrl |-> in.apiUrl,
     releasePrefix |-> OrElse(in.releasePrefix, Undefined),
     skipGithubRelease |-> IsTrue(in.skipGithubRelease),
     body |-> OrElse(ReleaseBody(in), Undefined),
     draft |-> IsTrue(in.draft),
     prerelease |-> IsTrue(in.prerelease),
     commitHash |-> CommitHash(in),
     commitMessage |-> CommitSubject(in),
     deployedBy |-> in.deployedBy]

\* the Session that Init mode builds from its inputs and the dry-run result
SessionData(in, result) ==
    [environment |-> in.environment,
     version |-> result.version,
     applicationName |-> result.applicationName,
     apiUrl |-> in.apiUrl,
     releasePrefix |-> OrElse(in.releasePrefix, Undefined),
     skipGithubRelease |-> IsTrue(in.skipGithubRelease),
     body |-> OrElse(ReleaseBody(in), Undefined),
     draft |-> IsTrue(in.draft),
     prerelease |-> IsTrue(in.prerelease),
     commitHash |-> CommitHash(in),
     commitMessage |-> CommitSubject(in),
     deployedBy |-> in.deployedBy]

\* InitMode without its return: run() goes on into the single-job code
InitModeFallsThrough(in, led, f) ==
    LET req == PostDeploy(in.apiUrl, in.token,
                   [environment |-> in.environment, bump |-> BumpOf(in),
                    dryRun |-> TRUE])
        result == LedgerDeploy(led, JSONParse(req.body), f.api)
    IN  IF ~result.ok
        THEN [Effect(led) EXCEPT !.failed = ApiError(result.code, result.error),
                                 !.reqs = <<Sent(req, result)>>]
        ELSE [Effect(led) EXCEPT
                !.state = [EmptyState EXCEPT
                              !.skip = "false",
                              !.mode = "upload-session",
                              !.session = JSONStringify(SessionData(in, result),
                                              SessionKeys, SessionOptional),
                              !.artifacts = in.artifacts,
                              !.token = in.token,
                              !.apiUrl = in.apiUrl,
                              !.environment = in.environment,
                              !.version = result.version,
                              !.applicationName = result.applicationName],
                !.outputs = [NoOutputs EXCEPT !.version = result.version],
                !.reqs = <<Sent(req, result), Sent(req, result)>>]

\* Mode 2: dry run (Init): get the next version, save the Session for cleanup
InitMode(in, led, f) ==
    LET req == PostDeploy(in.apiUrl, in.token,
                   [environment |-> in.environment, bump |-> BumpOf(in),
                    dryRun |-> TRUE])
        result == LedgerDeploy(led, JSONParse(req.body), f.api)
    IN  IF ~result.ok
        THEN [Effect(led) EXCEPT !.failed = ApiError(result.code, result.error),
                              !.reqs = <<Sent(req, result)>>]
        ELSE [Effect(led) EXCEPT
                !.state = [EmptyState EXCEPT
                              !.skip = "false",
                              !.mode = "upload-session",
                              !.session = JSONStringify(SessionData(in, result),
                                              SessionKeys, SessionOptional),
                              !.artifacts = in.artifacts],
                !.outputs = [NoOutputs EXCEPT !.version = result.version],
                !.reqs = <<Sent(req, result)>>]

\* ExplicitMode that looks for stored artifacts whether or not it creates a
\* release
ExplicitModeAlwaysLists(in, st, led, f) ==
    LET dryReq == PostDeploy(in.apiUrl, in.token,
                      [environment |-> in.environment, version |-> in.version,
                       dryRun |-> TRUE])
        dryRunResult == LedgerDeploy(led, JSONParse(dryReq.body), f.api)
        gitTag == GitTag(in.releasePrefix, dryRunResult.applicationName, in.version)
        req == PostDeploy(in.apiUrl, in.token,
                   [environment |-> in.environment, version |-> in.version,
                    commitHash |-> CommitHash(in),
                    commitMessage |-> CommitSubject(in),
                    deployedBy |-> in.deployedBy, gitTag |-> gitTag])
        result == LedgerDeploy(led, JSONParse(req.body), f.api2)
        release == ~IsTrue(in.skipGithubRelease) /\ in.githubToken # ""
        stored == downloadStoredArtifacts(st, f.artifacts)
    IN  IF ~dryRunResult.ok
        THEN [Effect(led) EXCEPT
                !.failed = ApiError(dryRunResult.code, dryRunResult.error),
                !.reqs = <<Sent(dryReq, dryRunResult)>>]
        ELSE IF ~result.ok
        THEN [Effect(led) EXCEPT
                !.failed = ApiError(result.code, result.error),
                !.reqs = <<Sent(dryReq, dryRunResult), Sent(req, result)>>]
        ELSE [Effect(led) EXCEPT
                !.state = [EmptyState EXCEPT !.skip = "true"],
                !.outputs = [NoOutputs EXCEPT !.version = result.version,
                                              !.id = result.id],
                !.reqs = <<Sent(dryReq, dryRunResult), Sent(req, result)>>,
                !.blob = stored.blob,
                !.releases =
                    IF release
                    THEN createGithubRelease(
                             [githubToken |-> in.githubToken, tag |-> gitTag,
                              body |-> ReleaseBody(in),
                              draft |-> IsTrue(in.draft),
                              prerelease |-> IsTrue(in.prerelease),
                              artifacts |-> in.artifacts,
                              artifactFiles |-> stored.files], f.release)
                    ELSE <<>>,
                !.led = result.led]

\* Mode 3: explicit version: record immediately
\* ExplicitMode that saves, instead of skip = true, what SingleJob mode
\* saves for the cleanup phase to record
ExplicitModeSavesRecord(in, st, led, f) ==
    LET dryReq == PostDeploy(in.apiUrl, in.token,
                      [environment |-> in.environment, version |-> in.version,
                       dryRun |-> TRUE])
        dryRunResult == LedgerDeploy(led, JSONParse(dryReq.body), f.api)
        gitTag == GitTag(in.releasePrefix, dryRunResult.applicationName, in.version)
        req == PostDeploy(in.apiUrl, in.token,
                   [environment |-> in.environment, version |-> in.version,
                    commitHash |-> CommitHash(in),
                    commitMessage |-> CommitSubject(in),
                    deployedBy |-> in.deployedBy, gitTag |-> gitTag])
        result == LedgerDeploy(led, JSONParse(req.body), f.api2)
        release == ~IsTrue(in.skipGithubRelease) /\ in.githubToken # ""
        stored == downloadStoredArtifacts(st, f.artifacts)
    IN  IF ~dryRunResult.ok
        THEN [Effect(led) EXCEPT
                !.failed = ApiError(dryRunResult.code, dryRunResult.error),
                !.reqs = <<Sent(dryReq, dryRunResult)>>]
        ELSE IF ~result.ok
        THEN [Effect(led) EXCEPT
                !.failed = ApiError(result.code, result.error),
                !.reqs = <<Sent(dryReq, dryRunResult), Sent(req, result)>>]
        ELSE [Effect(led) EXCEPT
                !.state = [EmptyState EXCEPT
                              !.skip = "false",
                              !.token = in.token,
                              !.apiUrl = in.apiUrl,
                              !.environment = in.environment,
                              !.version = result.version,
                              !.applicationName = dryRunResult.applicationName],
                !.outputs = [NoOutputs EXCEPT !.version = result.version,
                                              !.id = result.id],
                !.reqs = <<Sent(dryReq, dryRunResult), Sent(req, result)>>,
                !.blob = IF release THEN stored.blob ELSE <<>>,
                !.releases =
                    IF release
                    THEN createGithubRelease(
                             [githubToken |-> in.githubToken, tag |-> gitTag,
                              body |-> ReleaseBody(in),
                              draft |-> IsTrue(in.draft),
                              prerelease |-> IsTrue(in.prerelease),
                              artifacts |-> in.artifacts,
                              artifactFiles |-> stored.files], f.release)
                    ELSE <<>>,
                !.led = result.led]

ExplicitMode(in, st, led, f) ==
    LET dryReq == PostDeploy(in.apiUrl, in.token,
                      [environment |-> in.environment, version |-> in.version,
                       dryRun |-> TRUE])
        dryRunResult == LedgerDeploy(led, JSONParse(dryReq.body), f.api)
        gitTag == GitTag(in.releasePrefix, dryRunResult.applicationName, in.version)
        req == PostDeploy(in.apiUrl, in.token,
                   [environment |-> in.environment, version |-> in.version,
                    commitHash |-> CommitHash(in),
                    commitMessage |-> CommitSubject(in),
                    deployedBy |-> in.deployedBy, gitTag |-> gitTag])
        result == LedgerDeploy(led, JSONParse(req.body), f.api2)
        release == ~IsTrue(in.skipGithubRelease) /\ in.githubToken # ""
        stored == downloadStoredArtifacts(st, f.artifacts)
    IN  IF ~dryRunResult.ok
        THEN [Effect(led) EXCEPT
                !.failed = ApiError(dryRunResult.code, dryRunResult.error),
                !.reqs = <<Sent(dryReq, dryRunResult)>>]
        ELSE IF ~result.ok
        THEN [Effect(led) EXCEPT
                !.failed = ApiError(result.code, result.error),
                !.reqs = <<Sent(dryReq, dryRunResult), Sent(req, result)>>]
        ELSE [Effect(led) EXCEPT
                !.state = [EmptyState EXCEPT !.skip = "true"],
                !.outputs = [NoOutputs EXCEPT !.version = result.version,
                                              !.id = result.id],
                !.reqs = <<Sent(dryReq, dryRunResult), Sent(req, result)>>,
                !.blob = IF release THEN stored.blob ELSE <<>>,
                !.releases =
                    IF release
                    THEN createGithubRelease(
                             [githubToken |-> in.githubToken, tag |-> gitTag,
                              body |-> ReleaseBody(in),
                              draft |-> IsTrue(in.draft),
                              prerelease |-> IsTrue(in.prerelease),
                              artifacts |-> in.artifacts,
                              artifactFiles |-> stored.files], f.release)
                    ELSE <<>>,
                !.led = result.led]

\* SingleJobMode with dryRun: true left out of its request: the main
\* phase records the release, and the cleanup phase records it again
SingleJobModeNoDryRun(in, led, f) ==
    LET req == PostDeploy(in.apiUrl, in.token,
                   [environment |-> in.environment, bump |-> BumpOf(in)])
        result == LedgerDeploy(led, JSONParse(req.body), f.api)
    IN  IF ~result.ok
        THEN [Effect(led) EXCEPT !.failed = ApiError(result.code, result.error),
                                 !.reqs = <<Sent(req, result)>>]
        ELSE [Effect(led) EXCEPT
                !.state = [EmptyState EXCEPT
                              !.skip = "false",
                              !.token = in.token,
                              !.apiUrl = in.apiUrl,
                              !.environment = in.environment,
                              !.version = result.version,
                              !.applicationName = result.applicationName,
                              !.commitHash = CommitHash(in),
                              !.commitMessage = CommitSubject(in),
                              !.deployedBy = in.deployedBy,
                              !.githubToken = in.githubToken,
                              !.artifacts = in.artifacts],
                !.outputs = [NoOutputs EXCEPT !.version = result.version],
                !.reqs = <<Sent(req, result)>>,
                !.led = result.led]

\* Mode 4: single job: get the next version, save state for the cleanup phase
SingleJobMode(in, led, f) ==
    LET req == PostDeploy(in.apiUrl, in.token,
                   [environment |-> in.environment, bump |-> BumpOf(in),
                    dryRun |-> TRUE])
        result == LedgerDeploy(led, JSONParse(req.body), f.api)
    IN  IF ~result.ok
        THEN [Effect(led) EXCEPT !.failed = ApiError(result.code, result.error),
                                 !.reqs = <<Sent(req, result)>>]
        ELSE [Effect(led) EXCEPT
                !.state = [EmptyState EXCEPT
                              !.skip = "false",
                              !.token = in.token,
                              !.apiUrl = in.apiUrl,
                              !.environment = in.environment,
                              !.version = result.version,
                              !.applicationName = result.applicationName,
                              !.commitHash = CommitHash(in),
                              !.commitMessage = CommitSubject(in),
                              !.deployedBy = in.deployedBy,
                              !.skipGithubRelease =
                                  IF IsTrue(in.skipGithubRelease) THEN "true" ELSE "false",
                              !.releasePrefix = in.releasePrefix,
                              !.githubToken = in.githubToken,
                              !.body = ReleaseBody(in),
                              !.draft = IF IsTrue(in.draft) THEN "true" ELSE "false",
                              !.prerelease =
                                  IF IsTrue(in.prerelease) THEN "true" ELSE "false",
                              !.artifacts = in.artifacts],
                !.outputs = [NoOutputs EXCEPT !.version = result.version],
                !.reqs = <<Sent(req, result)>>]

\* a validation branch: throw before any call, nothing saved
ValidationFailure(in, led) == [Effect(led) EXCEPT !.failed = ValidationError(in)]

(***************************************************************************)
(* The cleanup phase: run() of post.ts, with its own helpers.              *)
(***************************************************************************)
\* crypto.randomUUID(): the n-th UUID handed out
randomUUID(n) == "uuid-" \o ToString(n)

\* the fixed bundle name of the earlier cleanup phase
generateArtifactNameFixed(n) == ARTIFACTS_ARTIFACT_NAME

\* a bundle name that is the Session's
generateArtifactNameSession(n) == SESSION_ARTIFACT_NAME

generateArtifactName(n) == ARTIFACTS_ARTIFACT_PREFIX \o randomUUID(n)

\* what one cleanup phase does: what it adds to its job, and the ledger, the
\* store and the UUID count after it
PostEffect(st, led, n) ==
    [failed |-> "", reqs |-> <<>>, blob |-> <<>>, releases |-> <<>>,
     led |-> led, store |-> st, uuids |-> n, warnings |-> <<>>]

\* uploadSession that serializes the core fields of the Session only
uploadSessionCoreFields(sessionData, order, eff, fault) ==
    LET core == {"environment", "version", "applicationName", "apiUrl"}
        text == JSONStringify(sessionData, SelectSeq(order, LAMBDA k : k \in core), {})
        bundle == <<[path |-> <<"session.json">>, data |-> text]>>
        up == <<[op |-> "upload", name |-> SESSION_ARTIFACT_NAME]>>
    IN  IF fault = "uploadThrows"
        THEN [eff EXCEPT !.failed = "Failed to CreateArtifact", !.blob = @ \o up]
        ELSE [eff EXCEPT !.blob = @ \o up,
                         !.store = UploadArtifact(@, SESSION_ARTIFACT_NAME, bundle)]

\* uploadSession that leaves a Session already published in place
uploadSessionOnce(sessionData, order, eff, fault) ==
    LET text == JSONStringify(sessionData, order, {})
        bundle == <<[path |-> <<"session.json">>, data |-> text]>>
        up == <<[op |-> "upload", name |-> SESSION_ARTIFACT_NAME]>>
    IN  IF fault = "uploadThrows"
        THEN [eff EXCEPT !.failed = "Failed to CreateArtifact", !.blob = @ \o up]
        ELSE [eff EXCEPT !.blob = @ \o up,
                         !.store = @ @@ (SESSION_ARTIFACT_NAME :> bundle)]

\* uploadSession(sessionData): session.json, alone, under the fixed name
uploadSession(sessionData, order, eff, fault) ==
    LET text == JSONStringify(sessionData, order, {})
        bundle == <<[path |-> <<"session.json">>, data |-> text]>>
        up == <<[op |-> "upload", name |-> SESSION_ARTIFACT_NAME]>>
    IN  IF fault = "uploadThrows"
        THEN [eff EXCEPT !.failed = "Failed to CreateArtifact", !.blob = @ \o up]
        ELSE [eff EXCEPT !.blob = @ \o up,
                         !.store = UploadArtifact(@, SESSION_ARTIFACT_NAME, bundle)]

\* core.warning(`No files matched pattern: ${pattern}`), for each pattern
\* of the list that matches no file
PatternWarnings(patterns) ==
    LET none == SelectSeq(PatternList(patterns), LAMBDA p : Glob(p) = <<>>)
    IN  [i \in DOMAIN none |-> "No files matched pattern: " \o none[i]]

\* uploadArtifactsToStorage without its return on an empty file list
uploadArtifactsToStorageAlways(patterns, eff, fault) ==
    LET filesToUpload == MatchFiles(patterns)
        artifactName == generateArtifactName(eff.uuids + 1)
        bundle == [i \in 1 .. Len(filesToUpload) |->
                      [path |-> filesToUpload[i], data |-> filesToUpload[i]]]
        up == <<[op |-> "upload", name |-> artifactName]>>
        warned == [eff EXCEPT !.warnings = @ \o PatternWarnings(patterns)]
    IN  IF fault = "uploadThrows"
        THEN [warned EXCEPT !.failed = "Failed to CreateArtifact", !.blob = @ \o up,
                            !.uuids = @ + 1]
        ELSE [warned EXCEPT !.blob = @ \o up, !.uuids = @ + 1,
                            !.store = UploadArtifact(@, artifactName, bundle)]

\* uploadArtifactsToStorage(patterns): the matched files under a fresh name
uploadArtifactsToStorage(patterns, eff, fault) ==
    LET filesToUpload == MatchFiles(patterns)
        artifactName == generateArtifactName(eff.uuids + 1)
        bundle == [i \in 1 .. Len(filesToUpload) |->
                      [path |-> filesToUpload[i], data |-> filesToUpload[i]]]
        up == <<[op |-> "upload", name |-> artifactName]>>
        warned == [eff EXCEPT !.warnings = @ \o PatternWarnings(patterns)]
    IN  IF filesToUpload = <<>>
        THEN [warned EXCEPT !.warnings = @ \o <<"No artifacts found to upload">>]
        ELSE IF fault = "uploadThrows"
        THEN [warned EXCEPT !.failed = "Failed to CreateArtifact", !.blob = @ \o up,
                            !.uuids = @ + 1]
        ELSE [warned EXCEPT !.blob = @ \o up, !.uuids = @ + 1,
                            !.store = UploadArtifact(@, artifactName, bundle)]

\* createGithubRelease(options) of the cleanup phase: assets from the glob
\* patterns only
postCreateGithubRelease(options, fault) ==
    IF fault = "createThrows" THEN <<>>
    ELSE LET files == MatchFiles(options.artifacts)
             n == AssetsUploaded(Len(files), fault)
         IN  <<[tag_name |-> options.tag, name |-> options.tag,
                body |-> OrElse(options.body, Undefined),
                draft |-> options.draft, prerelease |-> options.prerelease,
                generate_release_notes |-> options.body \in {"", Undefined},
                assets |-> [i \in 1 .. n |-> Basename(files[i])]]>>

\* the upload-session branch with its two uploads in the other order
UploadSessionPostArtifactsFirst(state, eff, f) ==
    LET text == state.session
        order == [i \in 1 .. Len(text) |-> text[i][1]]
        e1 == IF state.artifacts # <<>>
              THEN uploadArtifactsToStorage(state.artifacts, eff, f.artifacts)
              ELSE eff
    IN  IF e1.failed # "" THEN e1
        ELSE IF text # <<>>
        THEN uploadSession(JSONParse(text), order, e1, f.session)
        ELSE e1

\* mode === 'upload-session': publish the Session, then the artifacts
UploadSessionPost(state, eff, f) ==
    LET text == state.session
        order == [i \in 1 .. Len(text) |-> text[i][1]]
        e1 == IF text # <<>>
              THEN uploadSession(JSONParse(text), order, eff, f.session)
              ELSE eff
    IN  IF e1.failed # "" THEN e1
        ELSE IF state.artifacts # <<>>
        THEN uploadArtifactsToStorage(state.artifacts, e1, f.artifacts)
        ELSE e1

\* mode === 'upload-artifacts': publish the artifacts
UploadArtifactsPost(state, eff, f) ==
    IF state.artifacts # <<>>
    THEN uploadArtifactsToStorage(state.artifacts, eff, f.artifacts)
    ELSE eff

\* RecordPost that asks the ledger for the next patch version instead of
\* sending the version the main phase stored
RecordPostBumpsAgain(state, eff, f) ==
    LET gitTag == GitTag(state.releasePrefix, state.applicationName, state.version)
        req == PostDeploy(state.apiUrl, state.token,
                   [environment |-> state.environment, bump |-> "patch",
                    commitHash |-> state.commitHash,
                    commitMessage |-> state.commitMessage,
                    deployedBy |-> state.deployedBy, gitTag |-> gitTag])
        result == LedgerDeploy(eff.led, JSONParse(req.body), f.api)
    IN  IF state.token = "" \/ state.version = "" THEN eff
        ELSE IF ~result.ok
        THEN [eff EXCEPT !.failed = ApiError(result.code, result.error),
                         !.reqs = <<Sent(req, result)>>]
        ELSE [eff EXCEPT
                !.reqs = <<Sent(req, result)>>,
                !.led = result.led,
                !.releases =
                    IF state.skipGithubRelease # "true" /\ state.githubToken # ""
                    THEN postCreateGithubRelease(
                             [githubToken |-> state.githubToken, tag |-> gitTag,
                              body |-> OrElse(state.body, Undefined),
                              draft |-> state.draft = "true",
                              prerelease |-> state.prerelease = "true",
                              artifacts |-> state.artifacts], f.release)
                    ELSE <<>>]

\* RecordPost that leaves the application name out of the tag
RecordPostTagWithoutName(state, eff, f) ==
    LET gitTag == IF state.releasePrefix # ""
                  THEN state.releasePrefix \o "-v" \o state.version
                  ELSE "v" \o state.version
        req == PostDeploy(state.apiUrl, state.token,
                   [environment |-> state.environment, version |-> state.version,
                    commitHash |-> state.commitHash,
                    commitMessage |-> state.commitMessage,
                    deployedBy |-> state.deployedBy, gitTag |-> gitTag])
        result == LedgerDeploy(eff.led, JSONParse(req.body), f.api)
    IN  IF state.token = "" \/ state.version = "" THEN eff
        ELSE IF ~result.ok
        THEN [eff EXCEPT !.failed = ApiError(result.code, result.error),
                         !.reqs = <<Sent(req, result)>>]
        ELSE [eff EXCEPT
                !.reqs = <<Sent(req, result)>>,
                !.led = result.led,
                !.releases =
                    IF state.skipGithubRelease # "true" /\ state.githubToken # ""
                    THEN postCreateGithubRelease(
                             [githubToken |-> state.githubToken, tag |-> gitTag,
                              body |-> OrElse(state.body, Undefined),
                              draft |-> state.draft = "true",
                              prerelease |-> state.prerelease = "true",
                              artifacts |-> state.artifacts], f.release)
                    ELSE <<>>]

\* RecordPost that fails the run when the release is not created
RecordPostReleaseFatal(state, eff, f) ==
    LET gitTag == GitTag(state.releasePrefix, state.applicationName, state.version)
        req == PostDeploy(state.apiUrl, state.token,
                   [environment |-> state.environment, version |-> state.version,
                    commitHash |-> state.commitHash,
                    commitMessage |-> state.commitMessage,
                    deployedBy |-> state.deployedBy, gitTag |-> gitTag])
        result == LedgerDeploy(eff.led, JSONParse(req.body), f.api)
        released == postCreateGithubRelease(
                        [githubToken |-> state.githubToken, tag |-> gitTag,
                         body |-> OrElse(state.body, Undefined),
                         draft |-> state.draft = "true",
                         prerelease |-> state.prerelease = "true",
                         artifacts |-> state.artifacts], f.release)
    IN  IF state.token = "" \/ state.version = "" THEN eff
        ELSE IF ~result.ok
        THEN [eff EXCEPT !.failed = ApiError(result.code, result.error),
                         !.reqs = <<Sent(req, result)>>]
        ELSE IF state.skipGithubRelease # "true" /\ state.githubToken # ""
        THEN [eff EXCEPT
                !.failed = IF released = <<>> THEN "Failed to create GitHub release"
                           ELSE "",
                !.reqs = <<Sent(req, result)>>,
                !.led = result.led,
                !.releases = released]
        ELSE [eff EXCEPT !.reqs = <<Sent(req, result)>>, !.led = result.led]

\* RecordPost that creates the GitHub release before it looks at the
\* ledger's answer
RecordPostReleaseFirst(state, eff, f) ==
    LET gitTag == GitTag(state.releasePrefix, state.applicationName, state.version)
        req == PostDeploy(state.apiUrl, state.token,
                   [environment |-> state.environment, version |-> state.version,
                    commitHash |-> state.commitHash,
                    commitMessage |-> state.commitMessage,
                    deployedBy |-> state.deployedBy, gitTag |-> gitTag])
        result == LedgerDeploy(eff.led, JSONParse(req.body), f.api)
        releases ==
            IF state.skipGithubRelease # "true" /\ state.githubToken # ""
            THEN postCreateGithubRelease(
                     [githubToken |-> state.githubToken, tag |-> gitTag,
                      body |-> OrElse(state.body, Undefined),
                      draft |-> state.draft = "true",
                      prerelease |-> state.prerelease = "true",
                      artifacts |-> state.artifacts], f.release)
            ELSE <<>>
    IN  IF state.token = "" \/ state.version = "" THEN eff
        ELSE IF ~result.ok
        THEN [eff EXCEPT !.failed = ApiError(result.code, result.error),
                         !.reqs = <<Sent(req, result)>>,
                         !.releases = releases]
        ELSE [eff EXCEPT !.reqs = <<Sent(req, result)>>, !.led = result.led,
                         !.releases = releases]

\* single job: record the release, create the GitHub release
\* RecordPost without the test for a saved token and version
RecordPostUnguarded(state, eff, f) ==
    LET gitTag == GitTag(state.releasePrefix, state.applicationName, state.version)
        req == PostDeploy(state.apiUrl, state.token,
                   [environment |-> state.environment, version |-> state.version,
                    commitHash |-> state.commitHash,
                    commitMessage |-> state.commitMessage,
                    deployedBy |-> state.deployedBy, gitTag |-> gitTag])
        result == LedgerDeploy(eff.led, JSONParse(req.body), f.api)
    IN  IF ~result.ok
        THEN [eff EXCEPT !.failed = ApiError(result.code, result.error),
                         !.reqs = <<Sent(req, result)>>]
        ELSE [eff EXCEPT
                !.reqs = <<Sent(req, result)>>,
                !.led = result.led,
                !.releases =
                    IF state.skipGithubRelease # "true" /\ state.githubToken # ""
                    THEN postCreateGithubRelease(
                             [githubToken |-> state.githubToken, tag |-> gitTag,
                              body |-> OrElse(state.body, Undefined),
                              draft |-> state.draft = "true",
                              prerelease |-> state.prerelease = "true",
                              artifacts |-> state.artifacts], f.release)
                    ELSE <<>>]

RecordPost(state, eff, f) ==
    LET gitTag == GitTag(state.releasePrefix, state.applicationName, state.version)
        req == PostDeploy(state.apiUrl, state.token,
                   [environment |-> state.environment, version |-> state.version,
                    commitHash |-> state.commitHash,
                    commitMessage |-> state.commitMessage,
                    deployedBy |-> state.deployedBy, gitTag |-> gitTag])
        result == LedgerDeploy(eff.led, JSONParse(req.body), f.api)
    IN  IF state.token = "" \/ state.version = "" THEN eff
        ELSE IF ~result.ok
        THEN [eff EXCEPT !.failed = ApiError(result.code, result.error),
                         !.reqs = <<Sent(req, result)>>]
        ELSE [eff EXCEPT
                !.reqs = <<Sent(req, result)>>,
                !.led = result.led,
                !.releases =
                    IF state.skipGithubRelease # "true" /\ state.githubToken # ""
                    THEN postCreateGithubRelease(
                             [githubToken |-> state.githubToken, tag |-> gitTag,
                              body |-> OrElse(state.body, Undefined),
                              draft |-> state.draft = "true",
                              prerelease |-> state.prerelease = "true",
                              artifacts |-> state.artifacts], f.release)
                    ELSE <<>>]

\* The branch the cleanup phase takes, its conditions tested in the order
\* of the code.
PostBranch(state) ==
    IF state.skip = "true" THEN "skip"
    ELSE IF state.mode = "upload-session" THEN "upload-session"
    ELSE IF state.mode = "upload-artifacts" THEN "upload-artifacts"
    ELSE "record"

(***************************************************************************)
(* Inputs of the job invocations.                                          *)
(***************************************************************************)
\* the defaults the action declares: api-url, github-token, deployed-by
Defaults ==
    [NoInput EXCEPT !.apiUrl = "https://ops.groo.dev/v1",
                    !.githubToken = "ghs_job_token",
                    !.deployedBy = "github-actions"]

\* release options: the defaults, and three ways to depart from them
Profiles ==
    { Defaults,
      [Defaults EXCEPT !.releasePrefix = "web", !.skipGithubRelease = "true",
                       !.body = "notes", !.draft = "true", !.prerelease = "true",
                       !.commitHash = "abc123", !.deployedBy = "alice",
                       !.commitMessage = <<"fix: bug", "", "details">>,
                       !.apiUrl = "https://ops.example.test/v1"],
      [Defaults EXCEPT !.bodyFile = "CHANGELOG.md", !.githubToken = "",
                       !.prerelease = "true", !.deployedBy = "",
                       !.secretKey = "rsa1"],
      [Defaults EXCEPT !.bodyFile = "missing.md", !.releasePrefix = "web",
                       !.draft = "false"] }

\* every combination of the inputs that select the mode, under every profile
AllInputs ==
    { [p EXCEPT !.token = t, !.environment = e, !.version = v, !.bump = b,
                !.dryRun = d, !.getVersion = g, !.artifacts = a] :
        p \in Profiles, t \in {"", "t"},
        e \in {"", "production", "staging", "qa"},
        v \in {"", "2.0.0"}, b \in {"", "minor", "huge"},
        d \in {"", "true", "false"}, g \in {"", "true"},
        a \in {<<>>, <<"dist/*.zip">>, <<"out/*.none", " ">>} }

\* artifacts inputs of several lines: a file matched by two patterns, a
\* pattern without a match before, between and after patterns with one,
\* blank lines
PatternLists ==
    { <<"dist/app-linux.zip", "dist/*.zip">>,
      <<"out/*.none", "dist/app-macos.zip">>,
      <<"dist/app-macos.zip", "out/*.none", "dist/app-linux.zip", "tmp/*.none">>,
      <<" ", "dist/*.zip", "  ">> }

\* jobs that publish, or attach to their release, the files of such a list
PatternInputs ==
    { [b EXCEPT !.artifacts = a] :
        a \in PatternLists,
        b \in { Defaults,
                [Defaults EXCEPT !.token = "t", !.environment = "staging",
                                 !.dryRun = "true"],
                [Defaults EXCEPT !.token = "t", !.environment = "staging",
                                 !.version = "2.0.0"],
                [Defaults EXCEPT !.token = "t", !.environment = "staging"] } }

\* the jobs of a multi-job workflow run: build jobs that upload artifacts,
\* jobs that open the release (dry-run) and jobs that finalize it
WorkflowInputs ==
    { [Defaults EXCEPT !.artifacts = <<"dist/app-linux.zip">>],
      [Defaults EXCEPT !.artifacts = <<"dist/app-macos.zip", "out/*.none">>],
      [Defaults EXCEPT !.token = "t", !.environment = "staging",
                       !.bump = "major", !.dryRun = "true"],
      [Defaults EXCEPT !.token = "t", !.environment = "production",
                       !.dryRun = "true", !.releasePrefix = "web",
                       !.body = "notes", !.prerelease = "true",
                       !.commitMessage = <<"fix: bug", "", "details">>,
                       !.artifacts = <<"dist/*.zip">>],
      [Defaults EXCEPT !.token = "t"],
      [Defaults EXCEPT !.token = "t", !.githubToken = ""] }

(***************************************************************************)
(* crypto.ts: hybrid decryption (RSA-OAEP + AES-256-GCM).  Ciphertexts,    *)
(* tags and wrapped keys are symbolic: a value names what it was made of.  *)
(***************************************************************************)
\* the longest plaintext of a secret
MaxPlain == 2

Letters == {"a", "b"}

Plaintexts == UNION {[1 .. n -> Letters] : n \in 0 .. MaxPlain}

\* 256-bit content keys, initialisation vectors, RSA key pairs
AesKeys == {"k1", "k2"}

Ivs == {"iv1", "iv2"}

KeyPairs == {"rsa1", "rsa2"}

\* AES-GCM: the last 16 bytes of encryptedValue are the auth tag
TagLen == 16

\* the tag lengths (in bytes) that decipher.setAuthTag accepts for GCM when
\* createDecipheriv was given no authTagLength
GcmTagLengths == {4, 8, 12, 13, 14, 15, 16}

\* byte pos of the ciphertext of a plaintext under k and iv (counter mode:
\* the plaintext byte p xor the key stream)
CipherByte(k, iv, pos, p) == [k |-> k, iv |-> iv, pos |-> pos, p |-> p]

\* byte idx of the tag that authenticates the ciphertext ct under k and iv
TagByte(k, iv, ct, idx) == [k |-> k, iv |-> iv, idx |-> idx, ct |-> ct]

\* a byte that is neither
Garbage == [garbage |-> TRUE]

GcmEncrypt(k, iv, plain) ==
    [i \in 1 .. Len(plain) |-> CipherByte(k, iv, i, plain[i])]

GcmTag(k, iv, ct) == [i \in 1 .. TagLen |-> TagByte(k, iv, ct, i)]

\* decipher.update(ciphertext): the key stream of k and iv taken off
GcmDecrypt(k, iv, ct) ==
    [i \in 1 .. Len(ct) |->
        IF DOMAIN ct[i] = {"k", "iv", "pos", "p"}
        THEN IF ct[i].k = k /\ ct[i].iv = iv /\ ct[i].pos = i
             THEN ct[i].p ELSE "?"
        ELSE "?"]

\* decipher.final(): the tag set is the leading part of the tag of ct
GcmVerify(k, iv, ct, authTag) ==
    authTag = SubSeq(GcmTag(k, iv, ct), 1, Len(authTag))

\* the content key, encrypted to the public key pub with RSA-OAEP
WrapKey(pub, aes) == [pub |-> pub, aes |-> aes]

\* an EncryptedData whose JSON text does not parse
Malformed == [syntax |-> "error"]

\* what the encrypting side produces: EncryptedData of plain
EncryptSecret(plain, aes, iv, pub) ==
    LET ct == GcmEncrypt(aes, iv, plain)
    IN  [iv |-> iv, encryptedKey |-> WrapKey(pub, aes),
         encryptedValue |-> ct \o GcmTag(aes, iv, ct)]

\* buffer.subarray(-n)
LastBytes(buf, n) ==
    IF Len(buf) <= n THEN buf ELSE SubSeq(buf, Len(buf) - n + 1, Len(buf))

\* buffer.subarray(0, -n)
ButLastBytes(buf, n) ==
    IF Len(buf) <= n THEN <<>> ELSE SubSeq(buf, 1, Len(buf) - n)

Thrown(error) == [ok |-> FALSE, value |-> <<>>, error |-> error]

\* decryptSecret that returns what decipher.update gave it, without
\* decipher.final()
decryptSecretWithoutFinal(encryptedJson, privateKeyBase64) ==
    IF "syntax" \in DOMAIN encryptedJson THEN Thrown("SyntaxError")
    ELSE IF privateKeyBase64 \notin KeyPairs THEN Thrown("ERR_OSSL_UNSUPPORTED")
    ELSE IF "encryptedKey" \notin DOMAIN encryptedJson THEN Thrown("TypeError")
    ELSE IF encryptedJson.encryptedKey.pub # privateKeyBase64
    THEN Thrown("oaep decoding error")
    ELSE IF {"iv", "encryptedValue"} \ DOMAIN encryptedJson # {}
    THEN Thrown("TypeError")
    ELSE LET aesKey == encryptedJson.encryptedKey.aes
             ivBuffer == encryptedJson.iv
             encryptedBuffer == encryptedJson.encryptedValue
             authTag == LastBytes(encryptedBuffer, TagLen)
             ciphertext == ButLastBytes(encryptedBuffer, TagLen)
         IN  IF aesKey \notin AesKeys THEN Thrown("Invalid key length")
             ELSE IF Len(authTag) \notin GcmTagLengths
             THEN Thrown("Invalid authentication tag length")
             ELSE [ok |-> TRUE, value |-> GcmDecrypt(aesKey, ivBuffer, ciphertext),
                   error |-> ""]

\* decryptSecret(encryptedJson, privateKeyBase64): the plaintext, or the
\* error thrown
decryptSecret(encryptedJson, privateKeyBase64) ==
    IF "syntax" \in DOMAIN encryptedJson THEN Thrown("SyntaxError")
    ELSE IF privateKeyBase64 \notin KeyPairs THEN Thrown("ERR_OSSL_UNSUPPORTED")
    ELSE IF "encryptedKey" \notin DOMAIN encryptedJson THEN Thrown("TypeError")
    ELSE IF encryptedJson.encryptedKey.pub # privateKeyBase64
    THEN Thrown("oaep decoding error")
    ELSE IF {"iv", "encryptedValue"} \ DOMAIN encryptedJson # {}
    THEN Thrown("TypeError")
    ELSE LET aesKey == encryptedJson.encryptedKey.aes
             ivBuffer == encryptedJson.iv
             encryptedBuffer == encryptedJson.encryptedValue
             authTag == LastBytes(encryptedBuffer, TagLen)
             ciphertext == ButLastBytes(encryptedBuffer, TagLen)
         IN  IF aesKey \notin AesKeys THEN Thrown("Invalid key length")
             ELSE IF Len(authTag) \notin GcmTagLengths
             THEN Thrown("Invalid authentication tag length")
             ELSE IF ~GcmVerify(aesKey, ivBuffer, ciphertext, authTag)
             THEN Thrown("Unsupported state or unable to authenticate data")
             ELSE [ok |-> TRUE, value |-> GcmDecrypt(aesKey, ivBuffer, ciphertext),
                   error |-> ""]

\* no secret yet
NoSecret ==
    [phase |-> "none", plain |-> <<>>, produced |-> Malformed, json |-> Malformed,
     key |-> "", result |-> Thrown("")]

\* the EncryptedData that differ from json in one respect
Tamperings(json) ==
    LET buf == json.encryptedValue
        w == json.encryptedKey
        flip(b) == IF DOMAIN b = {"k", "iv", "pos", "p"}
                   THEN [b EXCEPT !.p = IF @ = "a" THEN "b" ELSE "a"]
                   ELSE Garbage
    IN  {Malformed}
        \cup {[f \in DOMAIN json \ {g} |-> json[f]] : g \in DOMAIN json}
        \cup {[json EXCEPT !.iv = v] : v \in Ivs \ {json.iv}}
        \cup {[json EXCEPT !.encryptedKey = k] :
                 k \in {WrapKey("?", "?"), WrapKey(w.pub, "short")}
                     \cup {WrapKey(w.pub, a) : a \in AesKeys \ {w.aes}}
                     \cup {WrapKey(p, w.aes) : p \in KeyPairs \ {w.pub}}}
        \cup {[json EXCEPT !.encryptedValue = [buf EXCEPT ![i] = flip(buf[i])]] :
                 i \in DOMAIN buf}
        \cup {[json EXCEPT !.encryptedValue = SubSeq(buf, 1, n)] :
                 n \in 0 .. Len(buf) - 1}
        \cup {[json EXCEPT !.encryptedValue = SubSeq(buf, n, Len(buf))] :
                 n \in 2 .. Len(buf)}
        \cup {[json EXCEPT !.encryptedValue = buf \o <<Garbage>>]}

(***************************************************************************)
(* Actions: the main phase of job j, one action per branch of run().       *)
(***************************************************************************)
EmptyStore == [n \in {} |-> <<>>]

\* a job whose runner is gone: nothing of it is left but what it wrote to
\* the store and the ledger
GoneJob == [IdleJob EXCEPT !.phase = "gone"]

\* no job has finished its cleanup phase with its runner still up
NoneFinished == \A i \in JobIds : jobs[i].phase # "post"

\* job j has not started, and the jobs before it have
CanStart(j) ==
    /\ jobs[j].phase = "idle"
    /\ \A i \in JobIds : i < j => jobs[i].phase # "idle"
    /\ NoneFinished

\* the main phase of job j ends with effect r
EndMain(j, in, r) ==
    /\ jobs' = [jobs EXCEPT ![j] =
                  [phase |-> "main", in |-> in, mode |-> ModeResolver(in),
                   state |-> r.state, mainFailed |-> r.failed, postFailed |-> "",
                   outputs |-> r.outputs, reqs |-> r.reqs, blob |-> r.blob,
                   releases |-> r.releases, steps |-> "success",
                   warnings |-> <<>>]]
    /\ ledger' = r.led
    /\ UNCHANGED <<store, uuids, secrets>>

MainInvalid(j, In) ==
    /\ CanStart(j)
    /\ \E in \in In :
        /\ ModeResolver(in) \in {"TokenRequired", "EnvironmentRequired",
                                 "InvalidEnvironment", "InvalidBump"}
        /\ EndMain(j, in, ValidationFailure(in, ledger))

MainUpload(j, In) ==
    /\ CanStart(j)
    /\ \E in \in In :
        /\ ModeResolver(in) = "Upload"
        /\ EndMain(j, in, UploadMode(in, ledger))

MainFinalize(j, In) ==
    /\ CanStart(j)
    /\ \E in \in In :
        /\ ModeResolver(in) = "Finalize"
        /\ \E fs \in SessionFaults, fa \in ArtifactFaults, api \in BOOLEAN,
              fr \in ReleaseFaults :
              EndMain(j, in, FinalizeMode(in, store, ledger,
                  [session |-> fs, artifacts |-> fa, api |-> api, release |-> fr]))

MainQueryVersion(j, In) ==
    /\ CanStart(j)
    /\ \E in \in In :
        /\ ModeResolver(in) = "QueryVersion"
        /\ \E api \in BOOLEAN :
              EndMain(j, in, QueryVersionMode(in, ledger, [api |-> api]))

MainInit(j, In) ==
    /\ CanStart(j)
    /\ \E in \in In :
        /\ ModeResolver(in) = "Init"
        /\ \E api \in BOOLEAN : EndMain(j, in, InitMode(in, ledger, [api |-> api]))

MainExplicit(j, In) ==
    /\ CanStart(j)
    /\ \E in \in In :
        /\ ModeResolver(in) = "Explicit"
        /\ \E api \in BOOLEAN, api2 \in BOOLEAN, fa \in ArtifactFaults,
              fr \in ReleaseFaults :
              EndMain(j, in, ExplicitMode(in, store, ledger,
                  [api |-> api, api2 |-> api2, artifacts |-> fa, release |-> fr]))

MainSingleJob(j, In) ==
    /\ CanStart(j)
    /\ \E in \in In :
        /\ ModeResolver(in) = "SingleJob"
        /\ \E api \in BOOLEAN :
              EndMain(j, in, SingleJobMode(in, ledger, [api |-> api]))

(***************************************************************************)
(* Actions: the cleanup phase of job j, one action per branch of run().    *)
(***************************************************************************)
\* the cleanup phase of job j ends with effect r
EndPost(j, r) ==
    /\ jobs' = [jobs EXCEPT ![j].phase = "post",
                            ![j].postFailed = r.failed,
                            ![j].reqs = @ \o r.reqs,
                            ![j].blob = @ \o r.blob,
                            ![j].releases = @ \o r.releases,
                            ![j].warnings = r.warnings]
    /\ ledger' = r.led
    /\ store' = r.store
    /\ uuids' = r.uuids
    /\ UNCHANGED secrets

\* the runner's condition on the cleanup phase: the steps of the job that
\* follow the main phase have succeeded
PostIfAlways(steps) == TRUE

PostIf(steps) == steps = "success"

\* a step of job j between its two phases fails
StepFails(j) ==
    /\ jobs[j].phase = "main"
    /\ jobs[j].steps = "success"
    /\ jobs' = [jobs EXCEPT ![j].steps = "failure"]
    /\ UNCHANGED <<store, ledger, uuids, secrets>>

CanClean(j, branch) ==
    /\ jobs[j].phase = "main"
    /\ PostIf(jobs[j].steps)
    /\ PostBranch(jobs[j].state) = branch
    /\ NoneFinished

PostSkip(j) ==
    /\ CanClean(j, "skip")
    /\ EndPost(j, PostEffect(store, ledger, uuids))

PostUploadSession(j) ==
    /\ CanClean(j, "upload-session")
    /\ \E fs \in UploadFaults, fa \in UploadFaults :
          EndPost(j, UploadSessionPost(jobs[j].state,
                        PostEffect(store, ledger, uuids),
                        [session |-> fs, artifacts |-> fa]))

PostUploadArtifacts(j) ==
    /\ CanClean(j, "upload-artifacts")
    /\ \E fa \in UploadFaults :
          EndPost(j, UploadArtifactsPost(jobs[j].state,
                        PostEffect(store, ledger, uuids), [artifacts |-> fa]))

PostRecord(j) ==
    /\ CanClean(j, "record")
    /\ \E api \in BOOLEAN, fr \in ReleaseFaults :
          EndPost(j, RecordPost(jobs[j].state, PostEffect(store, ledger, uuids),
                        [api |-> api, release |-> fr]))

\* the runner of a finished job is torn down
Retire(j) ==
    /\ jobs[j].phase = "post"
    /\ jobs' = [jobs EXCEPT ![j] = GoneJob]
    /\ UNCHANGED <<store, ledger, uuids, secrets>>

(***************************************************************************)
(* Specifications.                                                         *)
(***************************************************************************)
OkUpload == [session |-> "ok", artifacts |-> "ok"]

\* the store, the ledger and the UUID count that the jobs before leave behind
Fresh == PostEffect(EmptyStore, LedgerStart, 0)

\* ... after a job ran Init mode on input in, both phases without a fault
AfterInit(in, ctx) ==
    LET m == InitMode(in, ctx.led, [api |-> TRUE])
    IN  UploadSessionPost(m.state, ctx, OkUpload)

\* ... after a job ran Upload mode on input in
AfterUpload(in, ctx) ==
    UploadArtifactsPost(UploadMode(in, ctx.led).state, ctx, OkUpload)

\* ... after a job ran SingleJob mode on input in
AfterSingleJob(in, ctx) ==
    LET m == SingleJobMode(in, ctx.led, [api |-> TRUE])
    IN  RecordPost(m.state, ctx, [api |-> TRUE, release |-> "ok"])

InitStaging ==
    [Defaults EXCEPT !.token = "t", !.environment = "staging",
                     !.bump = "major", !.dryRun = "true"]

InitProduction ==
    [Defaults EXCEPT !.token = "t", !.environment = "production",
                     !.dryRun = "true", !.releasePrefix = "web",
                     !.skipGithubRelease = "true", !.body = "notes",
                     !.prerelease = "true", !.deployedBy = "",
                     !.commitMessage = <<"fix: bug", "", "details">>,
                     !.artifacts = <<"dist/*.zip">>]

InitDevelopment ==
    [Defaults EXCEPT !.token = "t", !.environment = "development",
                     !.bump = "minor", !.dryRun = "true",
                     !.releasePrefix = "web", !.draft = "true"]

Contexts ==
    { Fresh,
      AfterInit(InitStaging, Fresh),
      AfterInit(InitDevelopment, Fresh),
      AfterUpload([Defaults EXCEPT !.artifacts = <<"dist/app-linux.zip">>],
          AfterInit(InitProduction,
              AfterSingleJob([Defaults EXCEPT !.token = "t",
                                              !.environment = "production"],
                             Fresh))) }

\* one job invocation, on any input, after any of the contexts
Init ==
    /\ jobs = [j \in JobIds |-> IdleJob]
    /\ \E ctx \in Contexts :
        /\ store = ctx.store
        /\ ledger = ctx.led
        /\ uuids = ctx.uuids
    /\ secrets = NoSecret

Main(j, In) ==
    \/ MainInvalid(j, In)
    \/ MainUpload(j, In)
    \/ MainFinalize(j, In)
    \/ MainQueryVersion(j, In)
    \/ MainInit(j, In)
    \/ MainExplicit(j, In)
    \/ MainSingleJob(j, In)

Post(j) ==
    \/ PostSkip(j)
    \/ PostUploadSession(j)
    \/ PostUploadArtifacts(j)
    \/ PostRecord(j)

\* the inputs of the one invocation
JobInputs == AllInputs \cup PatternInputs

Next == Main(1, JobInputs) \/ StepFails(1) \/ Post(1)

Spec == Init /\ [][Next]_vars

\* a workflow run of MaxJobs jobs that upload, open or finalize a release,
\* their phases interleaved
InitWorkflow ==
    /\ jobs = [j \in JobIds |-> IdleJob]
    /\ store = EmptyStore
    /\ ledger = LedgerStart
    /\ uuids = 0
    /\ secrets = NoSecret

NextWorkflow ==
    \E j \in JobIds :
        \/ MainUpload(j, WorkflowInputs)
        \/ MainInit(j, WorkflowInputs)
        \/ MainFinalize(j, WorkflowInputs)
        \/ Post(j)
        \/ Retire(j)

SpecWorkflow == InitWorkflow /\ [][NextWorkflow]_vars

\* a secret is encrypted for a key pair
Encrypt ==
    /\ secrets.phase = "none"
    /\ \E plain \in Plaintexts, aes \in AesKeys, iv \in Ivs, pub \in KeyPairs :
          LET json == EncryptSecret(plain, aes, iv, pub)
          IN  secrets' = [secrets EXCEPT !.phase = "encrypted", !.plain = plain,
                                         !.produced = json, !.json = json]
    /\ UNCHANGED <<jobs, store, ledger, uuids>>

\* the EncryptedData is altered on its way to the action
Tamper ==
    /\ secrets.phase = "encrypted"
    /\ \E json \in Tamperings(secrets.json) :
          secrets' = [secrets EXCEPT !.phase = "tampered", !.json = json]
    /\ UNCHANGED <<jobs, store, ledger, uuids>>

\* decryptSecret is called with a private key
Decrypt ==
    /\ secrets.phase \in {"encrypted", "tampered"}
    /\ \E key \in KeyPairs \cup {"garbage"} :
          secrets' = [secrets EXCEPT !.phase = "decrypted", !.key = key,
                                     !.result = decryptSecret(secrets.json, key)]
    /\ UNCHANGED <<jobs, store, ledger, uuids>>

InitCrypto ==
    /\ jobs = [j \in JobIds |-> IdleJob]
    /\ store = EmptyStore
    /\ ledger = LedgerStart
    /\ uuids = 0
    /\ secrets = NoSecret

NextCrypto == Encrypt \/ Tamper \/ Decrypt

SpecCrypto == InitCrypto /\ [][NextCrypto]_vars

(***************************************************************************)
(* Properties.                                                             *)
(***************************************************************************)
ModeNames == {"Upload", "Finalize", "QueryVersion", "Init", "Explicit", "SingleJob"}

Body(req) == JSONParse(req.body)

IsGet(req) == req.method = "GET"

\* the side effect of the main phase that only mode m has
SideEffectOf(m, J) ==
    CASE m = "Upload" -> J.state.mode = "upload-artifacts"
      [] m = "Finalize" -> J.blob # <<>> /\ DryRuns(J.reqs) = <<>>
      [] m = "QueryVersion" -> \E i \in 1 .. Len(J.reqs) : IsGet(J.reqs[i])
      [] m = "Init" -> J.state.mode = "upload-session"
      [] m = "Explicit" ->
            \E i \in 1 .. Len(J.reqs) :
                IsDryRun(J.reqs[i]) /\ "version" \in DOMAIN Body(J.reqs[i])
      [] m = "SingleJob" -> J.state.token # ""

\* what the main phase of mode m does, and nothing more
LogicOf(m, J) ==
    CASE m = "Upload" ->
            /\ J.mainFailed = "" /\ J.reqs = <<>> /\ J.blob = <<>>
            /\ J.releases = <<>>
            /\ J.state.skip = "false" /\ J.state.mode = "upload-artifacts"
      [] m = "Finalize" ->
            /\ J.blob # <<>>
            /\ Len(J.reqs) <= 1
            /\ \A i \in 1 .. Len(J.reqs) : IsWrite(J.reqs[i])
            /\ J.mainFailed = "" => Len(J.reqs) = 1 /\ J.state.skip = "true"
      [] m = "QueryVersion" ->
            /\ Len(J.reqs) = 1 /\ IsGet(J.reqs[1])
            /\ J.blob = <<>> /\ J.releases = <<>>
            /\ J.mainFailed = "" => J.state.skip = "true"
      [] m = "Init" ->
            /\ Len(J.reqs) = 1 /\ IsDryRun(J.reqs[1])
            /\ "bump" \in DOMAIN Body(J.reqs[1])
            /\ J.blob = <<>> /\ J.releases = <<>>
            /\ J.mainFailed = "" =>
                  /\ J.state.skip = "false" /\ J.state.mode = "upload-session"
                  /\ J.state.session # <<>>
      [] m = "Explicit" ->
            /\ Len(J.reqs) \in {1, 2} /\ IsDryRun(J.reqs[1])
            /\ "version" \in DOMAIN Body(J.reqs[1])
            /\ Len(J.reqs) = 2 => IsWrite(J.reqs[2])
            /\ J.mainFailed = "" => Len(J.reqs) = 2 /\ J.state.skip = "true"
      [] m = "SingleJob" ->
            /\ Len(J.reqs) = 1 /\ IsDryRun(J.reqs[1])
            /\ "bump" \in DOMAIN Body(J.reqs[1])
            /\ J.blob = <<>> /\ J.releases = <<>>
            /\ J.mainFailed = "" =>
                  /\ J.state.skip = "false" /\ J.state.mode = ""
                  /\ J.state.token # "" /\ J.state.version # ""

\* the main phase threw before it did anything
FailedValidation(J) ==
    /\ J.mode \notin ModeNames
    /\ J.mainFailed # ""
    /\ J.reqs = <<>> /\ J.blob = <<>> /\ J.releases = <<>>
    /\ J.state = EmptyState /\ J.outputs = NoOutputs

\* C1: for every combination of the inputs, a finished main phase either
\* failed validation, having done nothing, or ran the logic of exactly one of
\* the six modes: it did what that mode does, shows the side effect of no
\* other mode, and, when it completed, had selected a mode.
C1_ExactlyOneMode ==
    \A j \in JobIds :
        jobs[j].phase = "main" =>
            LET J == jobs[j]
            IN  \/ FailedValidation(J)
                \/ /\ J.mode \in ModeNames
                   /\ LogicOf(J.mode, J)
                   /\ \A m \in ModeNames \ {J.mode} : ~SideEffectOf(m, J)
                   /\ J.mainFailed = "" => J.state.skip \in {"true", "false"}

\* a main phase that ran Init mode with a version input and artifacts
C1_Witness ==
    \E j \in JobIds :
        /\ jobs[j].phase = "main"
        /\ jobs[j].mode = "Init"
        /\ jobs[j].mainFailed = ""
        /\ jobs[j].in.version # ""
        /\ jobs[j].in.artifacts # <<>>

\* the job ran both phases and neither failed
Completed(J) == J.phase = "post" /\ J.mainFailed = "" /\ J.postFailed = ""

\* C2: an invocation (main plus cleanup) never sends more than one
\* non-dry-run POST to the deploy endpoint; one that completes without error
\* sends exactly one in SingleJob, Explicit and Finalize mode and none in
\* Init mode, so that Init followed by Finalize sends exactly one in total.
C2_OneLedgerWrite ==
    \A j \in JobIds :
        LET J == jobs[j]
        IN  /\ Len(Writes(J.reqs)) <= 1
            /\ Completed(J) /\ J.mode \in {"SingleJob", "Explicit", "Finalize"} =>
                  Len(Writes(J.reqs)) = 1
            /\ Completed(J) /\ J.mode = "Init" => Len(Writes(J.reqs)) = 0

\* a SingleJob invocation that completed, its write sent by the cleanup phase
C2_Witness ==
    \E j \in JobIds :
        /\ Completed(jobs[j])
        /\ jobs[j].mode = "SingleJob"
        /\ Len(jobs[j].reqs) = 2
        /\ IsWrite(jobs[j].reqs[2])

NoSession == "No session found. Run with environment and dry-run: true first."

\* resume(): what a job that downloads the Session without a fault gets
Resume(st) == downloadSession(st, "ok")

\* the main phase of job j runs in this step, in Finalize mode
FinalizeStep(j) ==
    /\ jobs[j].phase = "idle"
    /\ jobs'[j].phase = "main"
    /\ jobs'[j].mode = "Finalize"

\* the blob operations of the cleanup phase of J
PostBlob(J) == SelectSeq(J.blob, LAMBDA o : o.op = "upload")

\* the blob operations of the main phase of J
MainBlob(J) == SelectSeq(J.blob, LAMBDA o : o.op # "upload")

\* the cleanup phase of the Init-mode job J published its Session: the
\* upload of the Session did not throw
PublishedSession(J) ==
    /\ J.phase = "post"
    /\ J.mode = "Init"
    /\ Len(PostBlob(J)) >= 1
    /\ PostBlob(J)[1].name = SESSION_ARTIFACT_NAME
    /\ J.postFailed = "" \/ Len(PostBlob(J)) = 2

\* the cleanup phase of job j runs in this step and publishes its Session
PublishSessionStep(j) ==
    /\ jobs[j].phase = "main"
    /\ PublishedSession(jobs'[j])

HandedOver == {"environment", "version", "commitHash", "commitMessage", "deployedBy"}

\* C3: when the cleanup phase of an Init-mode job publishes its Session, the
\* Session holds the job's environment input and the version its dry-run
\* returned; and a job in Finalize mode that resumes the published Session
\* sends one ledger write, to the Session's API URL, whose environment,
\* version, commitHash, commitMessage and deployedBy are the Session's.
C3_InitThenFinalize ==
    [][\A j \in JobIds :
        /\ PublishSessionStep(j) =>
              LET s == Resume(store').session
              IN  /\ Resume(store').ok
                  /\ Prop(s, "environment") = jobs[j].in.environment
                  /\ Prop(s, "version") = jobs[j].outputs.version
        /\ FinalizeStep(j) /\ Resume(store).ok /\ jobs'[j].mainFailed # NoSession =>
              LET s == Resume(store).session
                  J == jobs'[j]
              IN  /\ Len(J.reqs) = 1
                  /\ IsWrite(J.reqs[1])
                  /\ J.reqs[1].url = Prop(s, "apiUrl") \o "/webhook/deploy"
                  /\ \A k \in HandedOver : Prop(Body(J.reqs[1]), k) = Prop(s, k)
      ]_vars

\* a Finalize job recorded staging 2.0.0, the Session of an Init job with
\* environment staging and bump major on a ledger at 1.2.3
C3_Witness ==
    \E j \in JobIds :
        /\ jobs[j].mode = "Finalize"
        /\ jobs[j].mainFailed = ""
        /\ Len(jobs[j].reqs) = 1
        /\ Body(jobs[j].reqs[1]).environment = "staging"
        /\ Body(jobs[j].reqs[1]).version = "2.0.0"

\* the artifact bundles published under the artifact-bundle prefix
PublishedBundles(st, n) == {generateArtifactName(u) : u \in 1 .. n} \cap DOMAIN st

\* collectRemote: what a job that downloads the stored artifacts without a
\* fault gets
CollectRemote(st) == downloadStoredArtifacts(st, "ok").files

\* C4: when a Finalize job resumes, collectRemote returns every file of
\* every artifact bundle that contributing jobs published under the
\* artifact-bundle prefix.
C4_CollectRemoteUnion ==
    [][\A j \in JobIds :
        FinalizeStep(j) /\ jobs'[j].mainFailed # NoSession =>
            \A n \in PublishedBundles(store, uuids) :
                \A i \in DOMAIN store[n] :
                    \E k \in DOMAIN CollectRemote(store) :
                        CollectRemote(store)[k] =
                            <<ARTIFACTS_DOWNLOAD_PATH>> \o store[n][i].path
      ]_vars

\* the cleanup phase of job j runs in this step and publishes an artifact
\* bundle: its last upload is not the Session's, and it did not throw
PublishArtifactsStep(j) ==
    /\ jobs[j].phase = "main"
    /\ jobs'[j].phase = "post"
    /\ jobs'[j].postFailed = ""
    /\ PostBlob(jobs'[j]) # <<>>
    /\ PostBlob(jobs'[j])[Len(PostBlob(jobs'[j]))].name # SESSION_ARTIFACT_NAME

\* the bundle of the files that the glob patterns match
BundleOf(patterns) ==
    [i \in 1 .. Len(MatchFiles(patterns)) |->
        [path |-> MatchFiles(patterns)[i], data |-> MatchFiles(patterns)[i]]]

\* C5: every publish of an artifact bundle, by the cleanup phase of an
\* Upload-mode or an Init-mode job, uses a name under which the BlobChannel
\* holds no bundle yet, stores the publisher's files under it and leaves
\* every bundle already in the BlobChannel as it was; so N publishes leave N
\* distinct bundles.
C5_NoBundleOverwritten ==
    [][\A j \in JobIds :
        PublishArtifactsStep(j) =>
            LET ups == PostBlob(jobs'[j])
                name == ups[Len(ups)].name
            IN  /\ name \notin DOMAIN store
                /\ name \in DOMAIN store'
                /\ store'[name] = BundleOf(jobs[j].in.artifacts)
                /\ store'[name] # <<>>
                /\ \A n \in DOMAIN store \ {SESSION_ARTIFACT_NAME} :
                      n \in DOMAIN store' /\ store'[n] = store[n]
                /\ Cardinality(DOMAIN store' \ {SESSION_ARTIFACT_NAME}) =
                      Cardinality(DOMAIN store \ {SESSION_ARTIFACT_NAME}) + 1
      ]_vars

\* three contributing jobs have published, and the store holds three bundles
C5_Witness ==
    /\ uuids = 3
    /\ Cardinality(PublishedBundles(store, uuids)) = 3
    /\ \E n, m \in PublishedBundles(store, uuids) : store[n] # store[m]

\* the Session that the Init-mode job J built in its main phase
BuiltSession(J) ==
    SessionData(J.in, [version |-> J.outputs.version,
                       applicationName |-> ApplicationName])

SessionFields == {SessionKeys[i] : i \in DOMAIN SessionKeys}

\* field-for-field equality of a resumed Session r and a built Session s
SameSession(r, s) ==
    /\ \A k \in SessionOptional : Prop(r, k) = s[k]
    /\ \A k \in SessionFields \ SessionOptional : k \in DOMAIN r /\ r[k] = s[k]
    /\ DOMAIN r \subseteq SessionFields

\* C6: once the cleanup phase of an Init-mode job has published the Session
\* that the main phase built and handed over through the run state, resuming
\* it from the BlobChannel yields a Session equal to the built one field for
\* field.
C6_SessionRoundTrip ==
    \A j \in JobIds :
        PublishedSession(jobs[j]) =>
            /\ Resume(store).ok
            /\ SameSession(Resume(store).session, BuiltSession(jobs[j]))

\* a Session without a release prefix and with an empty deployedBy made the
\* round trip
C6_Witness ==
    \E j \in JobIds :
        /\ PublishedSession(jobs[j])
        /\ jobs[j].in.deployedBy = ""
        /\ Prop(Resume(store).session, "releasePrefix") = Undefined
        /\ Resume(store).session.deployedBy = ""
        /\ Resume(store).session.version = jobs[j].outputs.version

\* C7: in SingleJob mode the main phase sends one request, a dryRun:true
\* one, and outputs the version the ledger returned for the bump; the
\* cleanup phase of the same job sends one non-dry-run write whose
\* environment and version are the values the main phase stored, the version
\* being the one the main phase output, and the ledger records that version.
C7_SingleJobDefersWrite ==
    \A j \in JobIds :
        LET J == jobs[j]
        IN  J.mode = "SingleJob" =>
              /\ J.phase = "main" =>
                    /\ Len(J.reqs) = 1
                    /\ IsDryRun(J.reqs[1])
                    /\ J.mainFailed = "" =>
                          /\ J.outputs.version =
                                Fmt(Bump(ledger[J.in.environment], BumpOf(J.in)))
                          /\ J.state.version = J.outputs.version
                          /\ J.state.environment = J.in.environment
              /\ J.phase = "post" /\ J.mainFailed = "" =>
                    /\ Len(J.reqs) = 2
                    /\ IsDryRun(J.reqs[1])
                    /\ IsWrite(J.reqs[2])
                    /\ Prop(Body(J.reqs[2]), "environment") = J.state.environment
                    /\ Prop(Body(J.reqs[2]), "version") = J.state.version
                    /\ J.state.version = J.outputs.version
                    /\ J.postFailed = "" =>
                          Fmt(ledger[J.in.environment]) = J.outputs.version
              /\ J.phase = "post" /\ J.mainFailed # "" => Len(J.reqs) = 1

\* production at 1.2.3, bump patch: the main phase output 1.2.4 and the
\* cleanup phase recorded it
C7_Witness ==
    \E j \in JobIds :
        /\ jobs[j].mode = "SingleJob"
        /\ Completed(jobs[j])
        /\ jobs[j].in.environment = "production"
        /\ BumpOf(jobs[j].in) = "patch"
        /\ jobs[j].outputs.version = "1.2.4"
        /\ Body(jobs[j].reqs[2]).version = "1.2.4"
        /\ ledger["production"] = <<1, 2, 4>>

\* C8: an invocation in Init mode sends the ledger one request, a
\* dryRun:true one, and never a non-dry-run deploy request, in the main and
\* in the cleanup phase; the Session its cleanup phase publishes has the
\* version that the dry-run returned and the environment input.
C8_InitNeverWrites ==
    \A j \in JobIds :
        LET J == jobs[j]
        IN  J.mode = "Init" =>
              /\ Len(J.reqs) = 1
              /\ IsDryRun(J.reqs[1])
              /\ Writes(J.reqs) = <<>>
              /\ J.phase = "post" /\ J.mainFailed = "" => J.blob # <<>>
              /\ PublishedSession(J) =>
                    /\ Resume(store).ok
                    /\ Resume(store).session.version =
                          Fmt(Bump(ledger[J.in.environment], BumpOf(J.in)))
                    /\ Resume(store).session.version = J.outputs.version
                    /\ Resume(store).session.environment = J.in.environment

\* an Init job on staging with bump minor published the Session of 1.3.0
C8_Witness ==
    \E j \in JobIds :
        /\ PublishedSession(jobs[j])
        /\ jobs[j].in.environment = "staging"
        /\ jobs[j].in.bump = "minor"
        /\ Resume(store).session.version = "1.3.0"
        /\ Len(jobs[j].reqs) = 1

\* token, a valid environment and an explicit version, get-version not set
ExplicitInputs(in) ==
    /\ in.token # ""
    /\ in.environment \in validEnvs
    /\ in.version # ""
    /\ ~IsTrue(in.getVersion)

\* C9: with token, a valid environment and an explicit version, and
\* get-version not set, the invocation runs Explicit mode whatever the
\* dry-run flag: a main phase that succeeds has sent the one ledger write,
\* for that environment and version, and has told the cleanup phase to skip;
\* the cleanup phase publishes nothing.
C9_ExplicitVersionWins ==
    \A j \in JobIds :
        LET J == jobs[j]
        IN  J.phase \in {"main", "post"} /\ ExplicitInputs(J.in) =>
              /\ J.mode = "Explicit"
              /\ J.mainFailed = "" =>
                    /\ Len(Writes(J.reqs)) = 1
                    /\ Prop(Body(Writes(J.reqs)[1]), "version") = J.in.version
                    /\ Prop(Body(Writes(J.reqs)[1]), "environment") = J.in.environment
                    /\ ledger[J.in.environment] = ParseVersion(J.in.version)
                    /\ J.state.skip = "true"
              /\ J.phase = "post" => PostBlob(J) = <<>>

\* token alone: neither environment nor version, dry-run and get-version
\* not true
FinalizeInputs(in) ==
    /\ in.token # ""
    /\ in.environment = ""
    /\ in.version = ""
    /\ ~IsTrue(in.dryRun)
    /\ ~IsTrue(in.getVersion)

\* C10: with a token and none of environment, version, dry-run and
\* get-version, the invocation runs Finalize mode: it looks for the
\* published Session, sends no dryRun:true request and does not fail for a
\* missing environment; when it succeeds, it has sent one write, for the
\* environment and the version of the Session in the BlobChannel.
C10_TokenOnlyFinalizes ==
    \A j \in JobIds :
        LET J == jobs[j]
        IN  J.phase \in {"main", "post"} /\ FinalizeInputs(J.in) =>
              /\ J.mode = "Finalize"
              /\ DryRuns(J.reqs) = <<>>
              /\ J.mainFailed # "environment is required"
              /\ J.blob # <<>>
              /\ J.blob[1].op = "list"
              /\ J.mainFailed = "" =>
                    /\ Resume(store).ok
                    /\ Len(J.reqs) = 1
                    /\ IsWrite(J.reqs[1])
                    /\ \A k \in {"environment", "version"} :
                          Prop(Body(J.reqs[1]), k) = Prop(Resume(store).session, k)

\* a token-only invocation resumed the Session of production 1.2.5 and
\* recorded it
C10_Witness ==
    \E j \in JobIds :
        /\ FinalizeInputs(jobs[j].in)
        /\ jobs[j].phase = "post"
        /\ jobs[j].mainFailed = ""
        /\ Body(jobs[j].reqs[1]).environment = "production"
        /\ Body(jobs[j].reqs[1]).version = Resume(store).session.version
        /\ ledger["production"] = ParseVersion(Resume(store).session.version)

\* what the code does on those inputs when dry-run is true: Init mode, a
\* dryRun:true request that carries the bump and not the version, no write
C9_DryRunWins ==
    \E j \in JobIds :
        LET J == jobs[j]
        IN  /\ ExplicitInputs(J.in)
            /\ IsTrue(J.in.dryRun)
            /\ PublishedSession(J)
            /\ Writes(J.reqs) = <<>>
            /\ Prop(Body(J.reqs[1]), "version") = Undefined
            /\ Resume(store).session.version # J.in.version

\* the same statement for the invocations whose dry-run flag is not true
C9_ExplicitWithoutDryRun ==
    \A j \in JobIds :
        LET J == jobs[j]
        IN  J.phase \in {"main", "post"} /\ ExplicitInputs(J.in)
                /\ ~IsTrue(J.in.dryRun) =>
              /\ J.mode = "Explicit"
              /\ J.mainFailed = "" =>
                    /\ Len(Writes(J.reqs)) = 1
                    /\ Prop(Body(Writes(J.reqs)[1]), "version") = J.in.version
                    /\ Prop(Body(Writes(J.reqs)[1]), "environment") = J.in.environment
                    /\ ledger[J.in.environment] = ParseVersion(J.in.version)
                    /\ J.state.skip = "true"
              /\ J.phase = "post" => PostBlob(J) = <<>>

\* the job has run its main phase
Started(J) == J.phase \in {"main", "post"}

\* the main phase threw the validation error msg: no request, no blob
\* operation, no release, no saved state, no output, and a cleanup phase
\* that finds no saved state and does nothing
FailedWith(J, msg) ==
    /\ J.mainFailed = msg
    /\ J.reqs = <<>>
    /\ J.blob = <<>>
    /\ J.releases = <<>>
    /\ J.state = EmptyState
    /\ J.outputs = NoOutputs
    /\ J.postFailed = ""

\* C11: with no token and an artifacts pattern, whatever environment,
\* version, dry-run and get-version are, the invocation runs Upload mode: the
\* main phase sends no request and touches no blob, and the cleanup phase
\* does at most one thing, the upload of an artifact bundle; no ledger
\* request is sent, no Session is published and no release is created.
C11_UploadOnlyPublishes ==
    \A j \in JobIds :
        LET J == jobs[j]
        IN  Started(J) /\ J.in.token = "" /\ J.in.artifacts # <<>> =>
              /\ J.mode = "Upload"
              /\ J.mainFailed = ""
              /\ J.reqs = <<>>
              /\ J.releases = <<>>
              /\ J.outputs = NoOutputs
              /\ J.phase = "main" => J.blob = <<>>
              /\ Len(J.blob) <= 1
              /\ \A i \in DOMAIN J.blob :
                    /\ J.blob[i].op = "upload"
                    /\ J.blob[i].name # SESSION_ARTIFACT_NAME
              /\ J.phase = "post" /\ MatchFiles(J.in.artifacts) # <<>> =>
                    Len(J.blob) = 1
              /\ J.phase = "post" /\ J.postFailed = "" /\ J.blob # <<>> =>
                    /\ J.blob[1].name \in DOMAIN store
                    /\ store[J.blob[1].name] = BundleOf(J.in.artifacts)

\* an invocation without token, with artifacts and with environment,
\* version, dry-run and get-version all set, published its bundle
C11_Witness ==
    \E j \in JobIds :
        LET J == jobs[j]
        IN  /\ J.phase = "post"
            /\ J.in.token = ""
            /\ J.in.environment = "production"
            /\ J.in.version # ""
            /\ IsTrue(J.in.dryRun)
            /\ IsTrue(J.in.getVersion)
            /\ J.postFailed = ""
            /\ Len(J.blob) = 1
            /\ J.blob[1].name \in DOMAIN store

\* C12: with a token, no environment and at least one of version, dry-run
\* and get-version set, the run fails with "environment is required", having
\* sent no request and saved no run state.
C12_EnvironmentRequired ==
    \A j \in JobIds :
        LET J == jobs[j]
        IN  /\ Started(J) /\ J.in.token # "" /\ J.in.environment = ""
            /\ (J.in.version # "" \/ IsTrue(J.in.dryRun) \/ IsTrue(J.in.getVersion))
            => /\ J.mode = "EnvironmentRequired"
               /\ FailedWith(J, "environment is required")

\* a run with token and get-version and no environment failed, and its
\* cleanup phase ran
C12_Witness ==
    \E j \in JobIds :
        LET J == jobs[j]
        IN  /\ J.phase = "post"
            /\ J.in.token # ""
            /\ J.in.environment = ""
            /\ IsTrue(J.in.getVersion)
            /\ J.in.version = ""
            /\ J.mainFailed = "environment is required"

\* C13: with neither a token nor an artifacts pattern, whatever the other
\* inputs are, the run fails with "token is required", having sent no
\* request and saved no run state.
C13_TokenRequired ==
    \A j \in JobIds :
        LET J == jobs[j]
        IN  Started(J) /\ J.in.token = "" /\ J.in.artifacts = <<>> =>
               /\ J.mode = "TokenRequired"
               /\ FailedWith(J, "token is required")

\* a run without token and artifacts, with environment and version, failed
C13_Witness ==
    \E j \in JobIds :
        LET J == jobs[j]
        IN  /\ J.phase = "post"
            /\ J.in.token = ""
            /\ J.in.artifacts = <<>>
            /\ J.in.environment = "production"
            /\ J.in.version # ""
            /\ J.mainFailed = "token is required"

\* token, a valid environment and get-version set
QueryInputs(in) ==
    /\ in.token # ""
    /\ in.environment \in validEnvs
    /\ IsTrue(in.getVersion)

\* C14: with token, a valid environment and get-version set, whatever
\* version, dry-run and bump are, the invocation runs QueryVersion mode: it
\* sends exactly one request, a GET to the version endpoint for that
\* environment, and no POST to the deploy endpoint; it touches no blob and
\* creates no release; a main phase that succeeds outputs the version the
\* ledger holds and tells the cleanup phase to skip, and the cleanup phase
\* adds nothing.
C14_QueryVersionReadOnly ==
    \A j \in JobIds :
        LET J == jobs[j]
        IN  Started(J) /\ QueryInputs(J.in) =>
              /\ J.mode = "QueryVersion"
              /\ Len(J.reqs) = 1
              /\ IsGet(J.reqs[1])
              /\ J.reqs[1].url =
                    J.in.apiUrl \o "/webhook/version?environment=" \o J.in.environment
              /\ J.blob = <<>>
              /\ J.releases = <<>>
              /\ J.postFailed = ""
              /\ \E ctx \in Contexts : ledger = ctx.led /\ store = ctx.store
              /\ J.mainFailed = "" =>
                    /\ J.state.skip = "true"
                    /\ J.outputs.version = Fmt(ledger[J.in.environment])
              /\ J.mainFailed # "" => J.state = EmptyState

\* a get-version run with a version, dry-run and an invalid bump read 1.2.4
\* and finished
C14_Witness ==
    \E j \in JobIds :
        LET J == jobs[j]
        IN  /\ J.phase = "post"
            /\ QueryInputs(J.in)
            /\ J.in.version # ""
            /\ IsTrue(J.in.dryRun)
            /\ J.in.bump \notin validBumps
            /\ J.mainFailed = ""
            /\ J.outputs.version = "1.2.4"

\* the modes that require the environment input
EnvironmentModes == {"QueryVersion", "Init", "Explicit", "SingleJob"}

\* the environment that the request names
EnvironmentOf(req, apiUrl) ==
    IF IsGet(req)
    THEN IF \E e \in validEnvs :
                req.url = apiUrl \o "/webhook/version?environment=" \o e
         THEN CHOOSE e \in validEnvs :
                req.url = apiUrl \o "/webhook/version?environment=" \o e
         ELSE Undefined
    ELSE Prop(Body(req), "environment")

\* C15: with a token and an environment outside production, staging and
\* development, the run fails with "Invalid environment" before any request,
\* blob operation or saved state, whatever selects the mode; so every
\* request that QueryVersion, Init, Explicit and SingleJob mode send names
\* an environment of that set, the one of the input.
C15_EnvironmentValidated ==
    \A j \in JobIds :
        LET J == jobs[j]
        IN  /\ Started(J) /\ J.in.token # "" /\ J.in.environment # ""
                /\ J.in.environment \notin validEnvs =>
                    /\ J.mode = "InvalidEnvironment"
                    /\ FailedWith(J, "Invalid environment: " \o J.in.environment
                          \o ". Must be one of: production, staging, development")
            /\ Started(J) /\ J.mode \in EnvironmentModes =>
                    \A i \in DOMAIN J.reqs :
                        /\ EnvironmentOf(J.reqs[i], J.in.apiUrl) \in validEnvs
                        /\ EnvironmentOf(J.reqs[i], J.in.apiUrl) = J.in.environment

\* a run with token, environment qa and get-version failed before any call
C15_Witness ==
    \E j \in JobIds :
        LET J == jobs[j]
        IN  /\ J.phase = "post"
            /\ J.in.token # ""
            /\ J.in.environment = "qa"
            /\ IsTrue(J.in.getVersion)
            /\ J.reqs = <<>>
            /\ J.mainFailed # ""

\* C16: every request sent to the ledger that carries a bump field carries
\* one of major, minor and patch, for every combination of the version,
\* dry-run and bump inputs.
C16_BumpValidated ==
    \A j \in JobIds :
        \A i \in DOMAIN jobs[j].reqs :
            LET req == jobs[j].reqs[i]
            IN  req.method = "POST" /\ "bump" \in DOMAIN Body(req) =>
                    Body(req).bump \in validBumps

\* what the code does with a version, dry-run: true and an invalid bump:
\* Init mode sends the bump as it is
C16_InvalidBumpSent ==
    \E j \in JobIds :
        LET J == jobs[j]
        IN  /\ J.mode = "Init"
            /\ J.in.version # ""
            /\ J.in.bump = "huge"
            /\ Len(J.reqs) = 1
            /\ Body(J.reqs[1]).bump = "huge"

\* the same statement for the invocations without a version input
C16_BumpValidatedWithoutVersion ==
    \A j \in JobIds :
        \A i \in DOMAIN jobs[j].reqs :
            LET req == jobs[j].reqs[i]
            IN  jobs[j].in.version = "" /\ req.method = "POST"
                    /\ "bump" \in DOMAIN Body(req) =>
                        Body(req).bump \in validBumps

\* the tag as a function of the prefix, the application name and the version
TagOf(prefix, applicationName, version) ==
    (IF prefix \in {"", Undefined} THEN applicationName ELSE prefix)
        \o "-v" \o version

\* the release prefix, the application name and the version that the call
\* site of job J builds its tag from
TagInputs(J) ==
    CASE J.mode = "Finalize" ->
            [prefix |-> Prop(Resume(store).session, "releasePrefix"),
             applicationName |-> Prop(Resume(store).session, "applicationName"),
             version |-> Prop(Resume(store).session, "version")]
      [] J.mode = "Explicit" ->
            [prefix |-> J.in.releasePrefix, applicationName |-> ApplicationName,
             version |-> J.in.version]
      [] OTHER ->
            [prefix |-> J.in.releasePrefix, applicationName |-> ApplicationName,
             version |-> J.outputs.version]

\* the modes that record the release and create the GitHub release
TaggingModes == {"Explicit", "SingleJob", "Finalize"}

\* C17: in Explicit mode, in the cleanup phase of SingleJob mode and in
\* Finalize mode the gitTag of the ledger write is the same function of the
\* release prefix, the application name and the version, and the GitHub
\* release that the job creates has that tag.
C17_SameTagEverywhere ==
    \A j \in JobIds :
        LET J == jobs[j]
        IN  Started(J) /\ J.mode \in TaggingModes =>
              /\ \A i \in DOMAIN Writes(J.reqs) :
                    Prop(Body(Writes(J.reqs)[i]), "gitTag") =
                        TagOf(TagInputs(J).prefix, TagInputs(J).applicationName,
                              TagInputs(J).version)
              /\ \A i \in DOMAIN J.releases :
                    /\ Writes(J.reqs) # <<>>
                    /\ J.releases[i].tag_name = Body(Writes(J.reqs)[1]).gitTag
                    /\ J.releases[i].name = J.releases[i].tag_name

\* a Finalize job resumed a Session with release prefix web and version
\* 1.3.0 and created the release web-v1.3.0
C17_Witness ==
    \E j \in JobIds :
        LET J == jobs[j]
        IN  /\ J.mode = "Finalize"
            /\ J.phase = "post"
            /\ Len(J.releases) = 1
            /\ J.releases[1].tag_name = "web-v1.3.0"
            /\ Body(J.reqs[1]).gitTag = "web-v1.3.0"

\* the tag as the documentation gives it
DocumentedTag(prefix, version) ==
    IF prefix \in {"", Undefined} THEN "v" \o version
    ELSE prefix \o "-v" \o version

\* C18: the tag of every GitHub release created, and of every ledger write,
\* is v{version} when no release prefix is supplied and P-v{version} when
\* release prefix P is supplied.
C18_DocumentedTagFormat ==
    \A j \in JobIds :
        LET J == jobs[j]
        IN  Started(J) /\ J.mode \in TaggingModes =>
              /\ \A i \in DOMAIN J.releases :
                    J.releases[i].tag_name =
                        DocumentedTag(TagInputs(J).prefix, TagInputs(J).version)
              /\ \A i \in DOMAIN Writes(J.reqs) :
                    Prop(Body(Writes(J.reqs)[i]), "gitTag") =
                        DocumentedTag(TagInputs(J).prefix, TagInputs(J).version)

\* what the code does without a release prefix: the application name stands
\* in for it
C18_ApplicationNameInTag ==
    \E j \in JobIds :
        LET J == jobs[j]
        IN  /\ J.mode = "SingleJob"
            /\ J.in.releasePrefix = ""
            /\ Len(J.releases) = 1
            /\ J.outputs.version = "1.2.4"
            /\ J.releases[1].tag_name = "ops-app-v1.2.4"

\* the same statement for the jobs whose release prefix is supplied
C18_PrefixedTag ==
    \A j \in JobIds :
        LET J == jobs[j]
        IN  Started(J) /\ J.mode \in TaggingModes /\ Writes(J.reqs) # <<>>
                /\ TagInputs(J).prefix \notin {"", Undefined} =>
              /\ \A i \in DOMAIN J.releases :
                    J.releases[i].tag_name =
                        DocumentedTag(TagInputs(J).prefix, TagInputs(J).version)
              /\ \A i \in DOMAIN Writes(J.reqs) :
                    Prop(Body(Writes(J.reqs)[i]), "gitTag") =
                        DocumentedTag(TagInputs(J).prefix, TagInputs(J).version)

\* C19: a Finalize job that finds no Session bundle in the BlobChannel fails
\* with the no-session error: it has listed the artifacts and done nothing
\* else, so it sends no ledger request, creates no release, saves no run
\* state, and its cleanup phase does nothing.
C19_FinalizeNeedsSession ==
    \A j \in JobIds :
        LET J == jobs[j]
        IN  Started(J) /\ J.mode = "Finalize"
                /\ SESSION_ARTIFACT_NAME \notin DOMAIN store =>
              /\ J.mainFailed = NoSession
              /\ J.reqs = <<>>
              /\ J.releases = <<>>
              /\ J.state = EmptyState
              /\ J.outputs = NoOutputs
              /\ J.blob = <<[op |-> "list", name |-> ""]>>
              /\ J.postFailed = ""
              /\ ledger = LedgerStart

\* a token-only run on an empty BlobChannel failed, and its cleanup ran
C19_Witness ==
    \E j \in JobIds :
        LET J == jobs[j]
        IN  /\ J.mode = "Finalize"
            /\ J.phase = "post"
            /\ store = EmptyStore
            /\ J.mainFailed = NoSession

\* the message of a run that a ledger error failed
Rejected == "API error (BAD_REQUEST): rejected"

\* how many of the requests of J its main phase sent: all of them, but for
\* the write of the SingleJob cleanup
MainCount(J) ==
    IF J.mode = "SingleJob" /\ Len(J.reqs) = 2 THEN 1 ELSE Len(J.reqs)

\* C20: a request that the ledger answers with a non-2xx response is the
\* last thing its phase does: the phase fails with API error (<code>):
\* <message> and no request follows, the same request included.  When it is
\* the main phase, no run state is saved, no output set and no release
\* created, and the cleanup phase does nothing; when it is the cleanup
\* phase, no release is created.  The ledger is left as it was.  A phase
\* whose requests were all answered 2xx does not fail with an API error.
C20_LedgerErrorIsFatal ==
    \A j \in JobIds :
        LET J == jobs[j]
        IN  Started(J) =>
              /\ \A i \in DOMAIN J.reqs :
                    ~J.reqs[i].ok =>
                        /\ i = Len(J.reqs)
                        /\ J.releases = <<>>
                        /\ \E ctx \in Contexts : ledger = ctx.led
                        /\ i <= MainCount(J) =>
                              /\ J.mainFailed = Rejected
                              /\ J.state = EmptyState
                              /\ J.outputs = NoOutputs
                              /\ J.postFailed = ""
                              /\ PostBlob(J) = <<>>
                        /\ i > MainCount(J) =>
                              /\ J.mainFailed = ""
                              /\ J.postFailed = Rejected
              /\ J.mainFailed = Rejected =>
                    J.reqs # <<>> /\ ~J.reqs[Len(J.reqs)].ok
              /\ J.postFailed = Rejected =>
                    J.reqs # <<>> /\ ~J.reqs[Len(J.reqs)].ok

\* the dry-run of an Explicit job was answered 2xx and its write non-2xx: the
\* run failed after two requests
C20_Witness ==
    \E j \in JobIds :
        LET J == jobs[j]
        IN  /\ J.mode = "Explicit"
            /\ J.phase = "post"
            /\ Len(J.reqs) = 2
            /\ J.reqs[1].ok
            /\ ~J.reqs[2].ok
            /\ J.mainFailed = Rejected

\* the ledger answered a non-dry-run write of J with 2xx
Recorded(J) == \E i \in DOMAIN J.reqs : IsWrite(J.reqs[i]) /\ J.reqs[i].ok

\* the job J calls createGithubRelease once its write has succeeded
ReleaseWanted(J) ==
    IF J.mode = "Finalize"
    THEN ~PropB(Resume(store).session, "skipGithubRelease") /\ J.in.githubToken # ""
    ELSE ~IsTrue(J.in.skipGithubRelease) /\ J.in.githubToken # ""

\* C21: in Explicit mode, Finalize mode and the cleanup phase of SingleJob
\* mode, an invocation whose ledger write succeeded does not fail, in
\* either phase, whether the release is created or not and whether all of
\* its assets are uploaded or not; an Explicit or Finalize main phase still
\* sets its outputs and tells the cleanup phase to skip.
C21_ReleaseFailureNotFatal ==
    \A j \in JobIds :
        LET J == jobs[j]
        IN  Started(J) /\ J.mode \in TaggingModes /\ Recorded(J) =>
              /\ J.mainFailed = ""
              /\ J.postFailed = ""
              /\ J.outputs.version # ""
              /\ J.mode \in {"Explicit", "Finalize"} =>
                    /\ J.state.skip = "true"
                    /\ J.outputs.id # ""

\* the cleanup phase of a SingleJob invocation recorded the release and
\* failed to create the GitHub release it wanted: the run succeeded
C21_Witness ==
    \E j \in JobIds :
        LET J == jobs[j]
        IN  /\ J.mode = "SingleJob"
            /\ J.phase = "post"
            /\ Recorded(J)
            /\ ReleaseWanted(J)
            /\ J.releases = <<>>
            /\ J.postFailed = ""

\* C22: in the single-job workflow, once a step between the two phases has
\* failed, the cleanup phase does not run: the invocation has sent its
\* dry-run request only, the ledger holds no write of it and no GitHub
\* release exists, although the main phase had saved a version to record.
C22_RecordedOnlyAfterSuccess ==
    \A j \in JobIds :
        LET J == jobs[j]
        IN  J.mode = "SingleJob" /\ J.steps = "failure" =>
              /\ J.phase = "main"
              /\ Writes(J.reqs) = <<>>
              /\ J.releases = <<>>
              /\ J.postFailed = ""
              /\ \E ctx \in Contexts : ledger = ctx.led

\* a SingleJob invocation whose main phase succeeded and saved the version
\* to record, and a later step of whose job failed
C22_Witness ==
    \E j \in JobIds :
        LET J == jobs[j]
        IN  /\ J.mode = "SingleJob"
            /\ J.mainFailed = ""
            /\ J.state.skip = "false"
            /\ J.state.version # ""
            /\ J.steps = "failure"
            /\ ReleaseWanted(J)

\* the Session bundle in the store, if any
SessionBundle(st) ==
    IF FindArtifact(st, SESSION_ARTIFACT_NAME) THEN <<st[SESSION_ARTIFACT_NAME]>> ELSE <<>>

\* job j takes this step, in either phase
StepOf(j) == jobs'[j] # jobs[j]

\* C23: the Session bundle changes only in a step in which the cleanup phase
\* of an Init-mode invocation publishes its Session; a step of either phase
\* of a Finalize, Upload, QueryVersion, Explicit or SingleJob invocation, and
\* a failed step of the job, leave the bundle as it was, so that a resume
\* before the step and a resume after it return the same Session.
C23_SessionImmutable ==
    [][/\ SessionBundle(store') # SessionBundle(store) =>
              \E j \in JobIds : PublishSessionStep(j)
       /\ \A j \in JobIds :
              StepOf(j) /\ jobs'[j].mode # "Init" =>
                 /\ SessionBundle(store') = SessionBundle(store)
                 /\ \A f \in SessionFaults :
                        downloadSession(store', f).session = downloadSession(store, f).session]_vars

\* an Upload-mode invocation published an artifact bundle next to the
\* Session of an earlier job, which a resume still returns
C23_Witness ==
    \E j \in JobIds :
        LET J == jobs[j]
        IN  /\ J.mode = "Upload"
            /\ J.phase = "post"
            /\ J.postFailed = ""
            /\ Len(PostBlob(J)) = 1
            /\ Resume(store).ok
            /\ Prop(Resume(store).session, "environment") = "staging"

\* the basenames of a list of files
Basenames(files) == [i \in DOMAIN files |-> Basename(files[i])]

\* s is an initial part of t
IsPrefix(s, t) == Len(s) <= Len(t) /\ s = SubSeq(t, 1, Len(s))

\* C24 as stated: an Explicit-mode invocation performs no BlobChannel
\* operation, and the assets of its release are files its own artifacts input
\* matches.
C24_ExplicitNoBlobOperation ==
    \A j \in JobIds :
        LET J == jobs[j]
        IN  J.mode = "Explicit" =>
              /\ J.blob = <<>>
              /\ \A i \in DOMAIN J.releases :
                     IsPrefix(J.releases[i].assets, Basenames(MatchFiles(J.in.artifacts)))

\* C24, amended: an Explicit-mode invocation uploads nothing and never
\* touches the Session; it performs a BlobChannel operation only when its
\* write succeeded and it creates a release, and then it runs
\* downloadStoredArtifacts once: one list, followed by a download only of a
\* bundle named record-release-artifacts; the assets of its release are the
\* files its artifacts input matches followed by the files of that bundle.
C24_ExplicitOnlyCollects ==
    \A j \in JobIds :
        LET J == jobs[j]
        IN  J.mode = "Explicit" /\ Started(J) =>
              /\ PostBlob(J) = <<>>
              /\ \A i \in DOMAIN J.blob : J.blob[i].name # SESSION_ARTIFACT_NAME
              /\ J.blob # <<>> <=> Recorded(J) /\ ReleaseWanted(J)
              /\ J.blob # <<>> =>
                    \E f \in ArtifactFaults :
                        LET stored == downloadStoredArtifacts(store, f)
                        IN  /\ J.blob = stored.blob
                            /\ J.blob[1].op = "list"
                            /\ \A i \in DOMAIN J.releases :
                                   IsPrefix(J.releases[i].assets,
                                       Basenames(MatchFiles(J.in.artifacts) \o stored.files))

\* an Explicit-mode invocation that recorded its version and created a
\* release with an asset listed the artifact bundles first
C24_Witness ==
    \E j \in JobIds :
        LET J == jobs[j]
        IN  /\ J.mode = "Explicit"
            /\ Recorded(J)
            /\ Len(J.releases) = 1
            /\ Len(J.releases[1].assets) >= 1
            /\ Len(J.blob) = 1
            /\ J.blob[1].op = "list"

\* the EncryptedData json has its three fields, its content key is wrapped
\* for the private key and is a 256-bit key
Unwraps(json, key) ==
    /\ DOMAIN json = {"iv", "encryptedKey", "encryptedValue"}
    /\ key \in KeyPairs
    /\ json.encryptedKey.pub = key
    /\ json.encryptedKey.aes \in AesKeys

\* ... and its value is a ciphertext followed by the 16-byte tag that the
\* wrapped content key and the iv give that ciphertext
Authentic(json, key) ==
    /\ Unwraps(json, key)
    /\ Len(json.encryptedValue) >= TagLen
    /\ LastBytes(json.encryptedValue, TagLen) =
          GcmTag(json.encryptedKey.aes, json.iv,
                 ButLastBytes(json.encryptedValue, TagLen))

C25_ShortTagAccepted ==
    /\ secrets.phase = "decrypted"
    /\ secrets.result.ok
    /\ Len(secrets.json.encryptedValue) = 12
    /\ secrets.plain = <<>>

\* the requests of J that go to neither endpoint of the release ledger
OtherRequests(J) ==
    SelectSeq(J.reqs, LAMBDA r :
        r.url \notin {J.in.apiUrl \o "/webhook/deploy",
                      J.in.apiUrl \o "/webhook/version?environment=" \o J.in.environment})

\* C26: an invocation given a secret-key and an environment, whose main
\* phase succeeds, fetches the configuration of the environment and sets
\* outputs beside version, id, deployed-at and commit-hash: a secret_<NAME>
\* per secret and a var_<NAME> per variable.
C26_SecretsExposed ==
    \A j \in JobIds :
        LET J == jobs[j]
        IN  Started(J) /\ J.in.secretKey # "" /\ J.in.environment \in validEnvs
                /\ J.in.token # "" /\ J.mainFailed = "" =>
              /\ OtherRequests(J) # <<>>
              /\ DOMAIN J.outputs # DOMAIN NoOutputs

\* an invocation given a secret-key recorded its release and did nothing
\* with the key: its requests are the two of the single-job flow and its
\* outputs are the four every invocation has, version alone being set
C26_SecretKeyIgnored ==
    \E j \in JobIds :
        LET J == jobs[j]
        IN  /\ J.mode = "SingleJob"
            /\ Completed(J)
            /\ J.in.secretKey = "rsa1"
            /\ Len(J.reqs) = 2
            /\ OtherRequests(J) = <<>>
            /\ DOMAIN J.outputs = {"version", "id", "deployedAt", "commitHash"}
            /\ J.outputs.version # ""

\* C27 as stated: an invocation has created a GitHub release only if it runs
\* Explicit, Finalize or SingleJob mode, a non-dry-run write of its own was
\* answered with success, its skip-github-release input is not set and it
\* has a github-token.
C27_ReleaseAfterWrite ==
    \A j \in JobIds :
        LET J == jobs[j]
        IN  J.releases # <<>> =>
              /\ J.mode \in TaggingModes
              /\ Recorded(J)
              /\ ~IsTrue(J.in.skipGithubRelease)
              /\ J.in.githubToken # ""

\* C27, amended: an invocation has created a GitHub release only if it runs
\* Explicit, Finalize or SingleJob mode, a non-dry-run write of its own was
\* answered with success and it has a github-token; and, in Explicit and
\* SingleJob mode, only if its skip-github-release input is not set, in
\* Finalize mode only if the Session's skipGithubRelease is not set,
\* whatever the skip-github-release input of the Finalize job is.
C27_ReleaseAfterWriteWanted ==
    \A j \in JobIds :
        LET J == jobs[j]
        IN  /\ Len(J.releases) <= 1
            /\ J.releases # <<>> =>
                  /\ J.mode \in TaggingModes
                  /\ Recorded(J)
                  /\ Len(Writes(J.reqs)) = 1
                  /\ J.reqs[Len(J.reqs)].ok
                  /\ J.in.githubToken # ""
                  /\ J.mode # "Finalize" => ~IsTrue(J.in.skipGithubRelease)
                  /\ J.mode = "Finalize" =>
                        ~PropB(Resume(store).session, "skipGithubRelease")

\* a Finalize job whose skip-github-release input is set created the
\* release that the Session asked for
C27_Witness ==
    \E j \in JobIds :
        LET J == jobs[j]
        IN  /\ J.mode = "Finalize"
            /\ IsTrue(J.in.skipGithubRelease)
            /\ Recorded(J)
            /\ Len(J.releases) = 1

\* what can be wrong with a Session bundle that exists: its download fails,
\* it holds no session.json, its session.json does not parse
Damaged == {"noPath", "noFile", "badJson"}

\* the blob operations of a resume that found the bundle
FoundSession ==
    <<[op |-> "list", name |-> ""], [op |-> "download", name |-> SESSION_ARTIFACT_NAME]>>

\* C28: when the Session bundle exists and is damaged, downloadSession
\* returns no Session (it does not throw), as it does when the bundle is
\* absent; and a Finalize job whose resume found the bundle and got no
\* Session from it fails with the no-session error of an absent Session,
\* having sent no ledger request, looked for no artifact bundle, created no
\* release, saved no run state and set no output, the ledger unchanged.
C28_DamagedSessionIsAbsence ==
    /\ FindArtifact(store, SESSION_ARTIFACT_NAME) =>
          \A f \in Damaged :
              /\ ~downloadSession(store, f).ok
              /\ downloadSession(store, f).session =
                    downloadSession(EmptyStore, "ok").session
              /\ downloadSession(store, f).blob = FoundSession
    /\ \A j \in JobIds :
          LET J == jobs[j]
          IN  Started(J) /\ J.mode = "Finalize" =>
                /\ J.blob = FoundSession <=>
                      FindArtifact(store, SESSION_ARTIFACT_NAME) /\ J.mainFailed = NoSession
                      /\ J.blob # <<[op |-> "list", name |-> ""]>>
                /\ J.blob = FoundSession =>
                      /\ J.mainFailed = NoSession
                      /\ J.reqs = <<>>
                      /\ J.releases = <<>>
                      /\ J.state = EmptyState
                      /\ J.outputs = NoOutputs
                      /\ J.postFailed = ""
                      /\ \E ctx \in Contexts : ledger = ctx.led

\* a Finalize job found the Session of the staging release, could not read
\* it, and failed with the no-session error
C28_Witness ==
    \E j \in JobIds :
        LET J == jobs[j]
        IN  /\ J.mode = "Finalize"
            /\ J.phase = "post"
            /\ Resume(store).ok
            /\ Prop(Resume(store).session, "environment") = "staging"
            /\ J.blob = FoundSession
            /\ J.mainFailed = NoSession

\* the files of bundle n of the store, as a download returns them
DownloadedFiles(st, n) ==
    {<<ARTIFACTS_DOWNLOAD_PATH>> \o st[n][i].path : i \in DOMAIN st[n]}

\* the members of a sequence
Range(seq) == {seq[i] : i \in DOMAIN seq}

\* C29: a Finalize job that resumed a valid Session sends its ledger write
\* whatever happens to the retrieval of the artifact bundles, and the
\* retrieval, when one bundle cannot be downloaded, skips that bundle and
\* still returns every file of every other published bundle.
C29_SkipsOnlyFailedBundle ==
    [][\A j \in JobIds :
        FinalizeStep(j) /\ jobs'[j].mainFailed # NoSession =>
            /\ Len(Writes(jobs'[j].reqs)) = 1
            /\ \E f \in ArtifactFaults :
                  LET stored == downloadStoredArtifacts(store, f)
                  IN  /\ jobs'[j].blob = Resume(store).blob \o stored.blob
                      /\ \E skipped \in SUBSET PublishedBundles(store, uuids) :
                            /\ Cardinality(skipped) <= 1
                            /\ \A n \in PublishedBundles(store, uuids) \ skipped :
                                   DownloadedFiles(store, n) \subseteq Range(stored.files)
      ]_vars

\* a Finalize job that resumed a valid Session sends its ledger write
\* whatever happens to the retrieval of the artifact bundles
C29_RetrievalFailureNotFatal ==
    [][\A j \in JobIds :
        FinalizeStep(j) /\ jobs'[j].mainFailed # NoSession =>
            /\ Len(Writes(jobs'[j].reqs)) = 1
            /\ jobs'[j].mainFailed \in {"", Rejected}
            /\ \E f \in ArtifactFaults :
                  jobs'[j].blob = Resume(store).blob \o downloadStoredArtifacts(store, f).blob
      ]_vars

\* two bundles are published, and a Finalize job recorded the release and
\* created the GitHub release without a file of either
C29_NoBundleReturned ==
    \E j \in JobIds :
        LET J == jobs[j]
        IN  /\ J.mode = "Finalize"
            /\ Recorded(J)
            /\ Cardinality(PublishedBundles(store, uuids)) = 2
            /\ Len(J.releases) = 1
            /\ J.releases[1].assets = <<>>

\* the files that the release of the Explicit or SingleJob invocation J is
\* to carry, in upload order
FilesToUpload(J) ==
    MatchFiles(J.in.artifacts) \o
        (IF J.mode = "Explicit" THEN CollectRemote(store) ELSE <<>>)

\* C30: the assets of a release are, in list order, the basenames of a
\* leading part of the files to upload: when the upload of asset k failed,
\* assets 1..k-1 are attached and none after them, the release exists with
\* its tag, and the invocation has not failed; the ledger write stands.
C30_AssetsInOrder ==
    \A j \in JobIds :
        LET J == jobs[j]
        IN  J.mode \in {"Explicit", "SingleJob"} /\ J.releases # <<>> =>
              LET release == J.releases[1]
              IN  /\ Len(J.releases) = 1
                  /\ IsPrefix(release.assets, Basenames(FilesToUpload(J)))
                  /\ release.tag_name =
                        TagOf(TagInputs(J).prefix, TagInputs(J).applicationName,
                              TagInputs(J).version)
                  /\ J.mainFailed = ""
                  /\ J.postFailed = ""
                  /\ Recorded(J)
                  /\ J.outputs.version # ""

\* of the two files that dist/*.zip matches the first was uploaded and the
\* second failed: the release of the Explicit invocation carries one asset
C30_Witness ==
    \E j \in JobIds :
        LET J == jobs[j]
        IN  /\ J.mode = "Explicit"
            /\ Len(FilesToUpload(J)) = 2
            /\ Len(J.releases) = 1
            /\ J.releases[1].assets = <<Basename(FilesToUpload(J)[1])>>
            /\ J.mainFailed = ""

\* the bundles of a store other than the Session
ArtifactBundles(st) == [n \in DOMAIN st \ {SESSION_ARTIFACT_NAME} |-> st[n]]

\* the cleanup phase of J has run and was left patterns to publish that
\* match no file
PublishedNothing(J) ==
    /\ J.phase = "post"
    /\ J.state.mode \in {"upload-artifacts", "upload-session"}
    /\ J.state.artifacts # <<>>
    /\ MatchFiles(J.state.artifacts) = <<>>

\* C31: no bundle in the BlobChannel is empty; and a cleanup phase whose
\* patterns match no file uploads no artifact bundle and takes no bundle
\* name: it warns No artifacts found to upload after the warning of each
\* pattern, and the run is not failed (an Init job fails only if the upload
\* of its Session threw, before the patterns were looked at).
C31_NeverEmptyBundle ==
    /\ \A n \in DOMAIN store : store[n] # <<>>
    /\ \A j \in JobIds :
          LET J == jobs[j]
          IN  PublishedNothing(J) =>
                /\ \A i \in DOMAIN PostBlob(J) :
                       PostBlob(J)[i].name = SESSION_ARTIFACT_NAME
                /\ \E ctx \in Contexts :
                       /\ uuids = ctx.uuids
                       /\ ArtifactBundles(store) = ArtifactBundles(ctx.store)
                /\ J.mode = "Upload" => J.blob = <<>> /\ J.postFailed = ""
                /\ J.postFailed = "" =>
                       J.warnings = PatternWarnings(J.state.artifacts)
                                       \o <<"No artifacts found to upload">>
                /\ J.postFailed # "" =>
                       /\ J.mode = "Init"
                       /\ J.warnings = <<>>
                       /\ Len(PostBlob(J)) = 1

\* an Upload-mode job whose only pattern, out/*.none, matches nothing: its
\* cleanup phase warned twice and uploaded nothing
C31_Witness ==
    \E j \in JobIds :
        LET J == jobs[j]
        IN  /\ J.mode = "Upload"
            /\ PublishedNothing(J)
            /\ J.blob = <<>>
            /\ J.postFailed = ""
            /\ J.warnings = <<"No files matched pattern: out/*.none",
                              "No artifacts found to upload">>

\* how many files the patterns before pattern i of the list pl match
RECURSIVE CountBefore(_, _)
CountBefore(pl, i) ==
    IF i <= 1 THEN 0 ELSE CountBefore(pl, i - 1) + Len(Glob(pl[i - 1]))

\* the matches of each pattern of pl, one pattern after the other: the file
\* at position pos is a match of the pattern whose share pos falls in
Concatenation(pl) ==
    [pos \in 1 .. CountBefore(pl, Len(pl) + 1) |->
        LET i == CHOOSE i \in DOMAIN pl :
                     CountBefore(pl, i) < pos /\ pos <= CountBefore(pl, i + 1)
        IN  Glob(pl[i])[pos - CountBefore(pl, i)]]

\* the non-blank lines of the artifacts input, in order
Lines(patterns) ==
    SelectSeq(patterns, LAMBDA p : p \notin {"", " ", "  "})

\* the paths of the bundle that the cleanup phase of J uploaded last
LastBundle(J) ==
    LET name == PostBlob(J)[Len(PostBlob(J))].name
    IN  [i \in DOMAIN store[name] |-> store[name][i].path]

\* C32: the files that a cleanup phase publishes, and the files that a
\* release is given as assets, are the matches of each non-blank pattern of
\* the artifacts input one pattern after the other, in pattern order, a
\* file that two patterns match appearing twice; a pattern without a match
\* adds nothing but its warning, and the patterns after it are expanded.
C32_PatternsIndependent ==
    \A j \in JobIds :
        LET J == jobs[j]
            files == Concatenation(Lines(J.in.artifacts))
        IN  /\ J.phase = "post" /\ J.mode \in {"Upload", "Init"} /\ J.mainFailed = ""
                    /\ J.postFailed = "" /\ J.in.artifacts # <<>> =>
                  /\ \A i \in DOMAIN Lines(J.in.artifacts) :
                         LET p == Lines(J.in.artifacts)[i]
                         IN  Glob(p) = <<>> <=>
                                \E w \in DOMAIN J.warnings :
                                    J.warnings[w] = "No files matched pattern: " \o p
                  /\ files # <<>> =>
                         /\ PostBlob(J) # <<>>
                         /\ LastBundle(J) = files
                  /\ files = <<>> => PostBlob(J) = SelectSeq(PostBlob(J),
                         LAMBDA o : o.name = SESSION_ARTIFACT_NAME)
            /\ J.mode \in {"Explicit", "SingleJob"} =>
                  \A i \in DOMAIN J.releases :
                      IsPrefix(J.releases[i].assets, Basenames(files))

\* macos, nothing, linux, nothing: the bundle published holds the macos
\* file and then the linux file, and two patterns were warned about
C32_Witness ==
    \E j \in JobIds :
        LET J == jobs[j]
        IN  /\ J.mode = "Upload"
            /\ J.phase = "post"
            /\ J.postFailed = ""
            /\ Len(J.in.artifacts) = 4
            /\ Len(PostBlob(J)) = 1
            /\ LastBundle(J) = <<MacosZip, LinuxZip>>
            /\ Len(J.warnings) = 2

\* dist/app-linux.zip and dist/*.zip: the release carries the linux file
\* twice
C32_TwiceMatched ==
    \E j \in JobIds :
        LET J == jobs[j]
        IN  /\ J.mode = "Explicit"
            /\ Len(J.releases) = 1
            /\ J.releases[1].assets = <<"app-linux.zip", "app-linux.zip", "app-macos.zip">>

\* C33: when the cleanup phase of an Init-mode job publishes its Session, a
\* resume after it returns that Session, field for field as the job built
\* it, whether or not the BlobChannel held a Session before, which is then
\* no longer returned: of two Sessions published one after the other, the
\* second is the one resumed.
C33_LastWriterWins ==
    [][\A j \in JobIds :
        PublishSessionStep(j) =>
            /\ Resume(store').ok
            /\ Resume(store').session = JSONParse(jobs[j].state.session)
            /\ SameSession(Resume(store').session, BuiltSession(jobs[j]))
            /\ (Resume(store).ok /\ Resume(store).session # JSONParse(jobs[j].state.session)) =>
                  Resume(store').session # Resume(store).session
      ]_vars

\* the bundle of two files shows that the production release was opened
\* and its Session published; the Session resumed is the staging one,
\* published after it
C33_Witness ==
    /\ \E n \in DOMAIN store \ {SESSION_ARTIFACT_NAME} : Len(store[n]) = 2
    /\ Resume(store).ok
    /\ Prop(Resume(store).session, "environment") = "staging"
    /\ \E j \in JobIds : PublishedSession(jobs[j])

\* the cleanup phase of job j runs in this step
CleanupStep(j) ==
    /\ jobs[j].phase = "main"
    /\ jobs'[j].phase = "post"

\* the step leaves the job's requests, BlobChannel operations and releases,
\* the store, the ledger and the UUIDs handed out as they were, and neither
\* fails the run nor warns
NoSideEffect(j) ==
    /\ jobs'[j].reqs = jobs[j].reqs
    /\ jobs'[j].blob = jobs[j].blob
    /\ jobs'[j].releases = jobs[j].releases
    /\ jobs'[j].postFailed = ""
    /\ jobs'[j].warnings = <<>>
    /\ store' = store
    /\ ledger' = ledger
    /\ uuids' = uuids

\* C34: a main phase that failed, on a validation error, a ledger error or
\* a missing Session, has saved nothing for the cleanup phase, and the
\* cleanup phase that runs after it sends no ledger request, performs no
\* BlobChannel operation, creates no release and changes neither the store
\* nor the ledger.
C34_FailedMainNoCleanup ==
    [][\A j \in JobIds :
        CleanupStep(j) /\ jobs[j].mainFailed # "" =>
            /\ jobs[j].state = EmptyState
            /\ NoSideEffect(j)
      ]_vars

\* the cleanup phase has run after an Explicit main phase whose dry-run was
\* answered and whose write the ledger refused
C34_Witness ==
    \E j \in JobIds :
        LET J == jobs[j]
        IN  /\ J.phase = "post"
            /\ J.mode = "Explicit"
            /\ J.mainFailed # ""
            /\ Len(J.reqs) = 2

\* ... after a Finalize main phase that found no Session
C34_MissingSession ==
    \E j \in JobIds :
        /\ jobs[j].phase = "post"
        /\ jobs[j].mode = "Finalize"
        /\ jobs[j].mainFailed = NoSession

\* ... after a main phase that refused its inputs
C34_ValidationError ==
    \E j \in JobIds :
        /\ jobs[j].phase = "post"
        /\ jobs[j].mode = "InvalidEnvironment"
        /\ jobs[j].mainFailed # ""

\* the modes whose main phase does all the work of the invocation
MainOnlyModes == {"Finalize", "QueryVersion", "Explicit"}

\* C35: the main phase of a Finalize, QueryVersion or Explicit invocation
\* that completed has saved skip = true and nothing else, and the cleanup
\* phase of the same job takes the skip branch: it sends no ledger
\* request, performs no BlobChannel operation, creates no release and
\* leaves the store and the ledger as the main phase left them.
C35_MainOnlyModesSkipCleanup ==
    [][\A j \in JobIds :
        CleanupStep(j) /\ jobs[j].mainFailed = "" /\ jobs[j].mode \in MainOnlyModes =>
            /\ jobs[j].state = [EmptyState EXCEPT !.skip = "true"]
            /\ PostBranch(jobs[j].state) = "skip"
            /\ NoSideEffect(j)
      ]_vars

\* the cleanup phase has run after an Explicit main phase that recorded
\* its version and created its release; the job has sent its two requests
\* and created one release, and the ledger holds one write of it
C35_Witness ==
    \E j \in JobIds :
        LET J == jobs[j]
        IN  /\ J.phase = "post"
            /\ J.mode = "Explicit"
            /\ J.mainFailed = ""
            /\ Len(J.reqs) = 2
            /\ Len(Writes(J.reqs)) = 1
            /\ Len(J.releases) = 1

\* ... after a Finalize main phase that recorded the Session's version
C35_AfterFinalize ==
    \E j \in JobIds :
        LET J == jobs[j]
        IN  /\ J.phase = "post"
            /\ J.mode = "Finalize"
            /\ J.mainFailed = ""
            /\ Len(Writes(J.reqs)) = 1

\* ... after a QueryVersion main phase that was answered
C35_AfterQueryVersion ==
    \E j \in JobIds :
        LET J == jobs[j]
        IN  /\ J.phase = "post"
            /\ J.mode = "QueryVersion"
            /\ J.mainFailed = ""
            /\ Len(J.reqs) = 1

\* the inputs on which an invocation runs Finalize mode
FinalizeRuns == {in \in JobInputs : ModeResolver(in) = "Finalize"}

\* the faults a Finalize main phase can meet
FinalizeFaults ==
    [session : SessionFaults, artifacts : ArtifactFaults, api : BOOLEAN,
     release : ReleaseFaults]

\* the Finalize job that is given the two tokens of in and no other input
TokensOnly(in) == [NoInput EXCEPT !.token = in.token, !.githubToken = in.githubToken]

\* C36: what a Finalize main phase does is determined by the Session it
\* resumes and by its token and github-token.  On the same store and
\* ledger, and under the same faults, a Finalize job on any inputs has the
\* effect of the job given its two tokens only: the same ledger request
\* (url, token, environment, version, commit fields, tag), the same release
\* (tag, body, draft, prerelease, assets) or none, the same outputs, failure
\* and ledger; so two Finalize jobs with the same tokens agree whatever
\* their api-url, bump, release-prefix, skip-github-release, body, draft,
\* prerelease, artifacts and commit inputs are.  And every Finalize job
\* that has run has the requests, BlobChannel operations, releases,
\* outputs and failure of a tokens-only job on the store and ledger it
\* started from, and has left that job's ledger.
C36_FinalizeDeterminedBySession ==
    /\ (\A j \in JobIds : jobs[j].phase = "idle") =>
          \A in \in FinalizeRuns, f \in FinalizeFaults :
              FinalizeMode(in, store, ledger, f) =
                  FinalizeMode(TokensOnly(in), store, ledger, f)
    /\ \A j \in JobIds :
          LET J == jobs[j]
          IN  Started(J) /\ J.mode = "Finalize" =>
                \E ctx \in {c \in Contexts : c.store = store}, f \in FinalizeFaults :
                    LET e == FinalizeMode(TokensOnly(J.in), ctx.store, ctx.led, f)
                    IN  /\ e.reqs = J.reqs
                        /\ e.blob = J.blob
                        /\ e.releases = J.releases
                        /\ e.outputs = J.outputs
                        /\ e.failed = J.mainFailed
                        /\ e.state = J.state
                        /\ e.led = ledger

\* a Finalize job whose own inputs all differ from the Session's values
\* (api-url, release-prefix, skip-github-release, body, draft, prerelease,
\* commit inputs) has sent its write to the Session's api URL and created
\* the release the Session describes
C36_Witness ==
    \E j \in JobIds :
        LET J == jobs[j]
            s == Resume(store).session
        IN  /\ J.mode = "Finalize"
            /\ Recorded(J)
            /\ J.in.apiUrl = "https://ops.example.test/v1"
            /\ J.in.releasePrefix = "web"
            /\ IsTrue(J.in.skipGithubRelease)
            /\ IsTrue(J.in.draft)
            /\ J.in.body = "notes"
            /\ J.in.commitHash = "abc123"
            /\ J.in.bump # ""
            /\ J.in.artifacts # <<>>
            /\ J.reqs[1].url = Prop(s, "apiUrl") \o "/webhook/deploy"
            /\ Prop(s, "apiUrl") # J.in.apiUrl
            /\ Len(J.releases) = 1
            /\ J.releases[1].body = Undefined
            /\ ~J.releases[1].draft

\* the uploads job j attempts in this step, in their order
NewUploads(j) ==
    SelectSeq(SubSeq(jobs'[j].blob, Len(jobs[j].blob) + 1, Len(jobs'[j].blob)),
              LAMBDA o : o.op = "upload")

\* the step leaves every bundle but the Session's as it was and adds none
OnlySessionChanged ==
    /\ DOMAIN store' = DOMAIN store \cup {SESSION_ARTIFACT_NAME}
    /\ \A n \in DOMAIN store \ {SESSION_ARTIFACT_NAME} : store'[n] = store[n]
    /\ uuids' = uuids

\* C37: the cleanup phase of an Init-mode job whose main phase completed
\* uploads the Session first, under the fixed name.  If that upload fails
\* the run is failed, no artifact upload is attempted and the store is
\* unchanged.  An artifact bundle is uploaded second and only after the
\* Session is published, and only if the job's artifacts input matched a
\* file; with no artifacts input the Session's is the only upload and the
\* only bundle that changes.
C37_SessionBeforeArtifacts ==
    [][\A j \in JobIds :
        CleanupStep(j) /\ jobs[j].mode = "Init" /\ jobs[j].mainFailed = "" =>
            LET new == NewUploads(j)
                published == /\ Resume(store').ok
                             /\ Resume(store').session = JSONParse(jobs[j].state.session)
            IN  /\ Len(new) \in {1, 2}
                /\ new[1].name = SESSION_ARTIFACT_NAME
                /\ (Len(new) = 1 /\ jobs'[j].postFailed # "") =>
                      /\ store' = store
                      /\ uuids' = uuids
                /\ (Len(new) = 2 \/ jobs'[j].postFailed = "") => published
                /\ (Len(new) = 1 /\ jobs'[j].postFailed = "") => OnlySessionChanged
                /\ Len(new) = 2 =>
                      /\ new[2].name = generateArtifactName(uuids + 1)
                      /\ MatchFiles(jobs[j].in.artifacts) # <<>>
                      /\ uuids' = uuids + 1
                /\ jobs[j].in.artifacts = <<>> =>
                      /\ Len(new) = 1
                      /\ jobs'[j].postFailed = "" => OnlySessionChanged
      ]_vars

\* an Init job with an artifacts input has published its Session and then
\* its bundle
C37_Witness ==
    \E j \in JobIds :
        LET J == jobs[j]
        IN  /\ J.phase = "post"
            /\ J.mode = "Init"
            /\ J.postFailed = ""
            /\ Len(PostBlob(J)) = 2
            /\ PostBlob(J)[1].name = SESSION_ARTIFACT_NAME
            /\ PostBlob(J)[2].name \in DOMAIN store
            /\ Resume(store).session = JSONParse(J.state.session)

\* the Session upload of an Init job with an artifacts input failed: the
\* run is failed and the Session's is the only upload attempted
C37_SessionUploadFailed ==
    \E j \in JobIds :
        LET J == jobs[j]
        IN  /\ J.phase = "post"
            /\ J.mode = "Init"
            /\ MatchFiles(J.in.artifacts) # <<>>
            /\ J.postFailed # ""
            /\ Len(PostBlob(J)) = 1

\* an Init job without an artifacts input has published its Session only
C37_SessionOnly ==
    \E j \in JobIds :
        LET J == jobs[j]
        IN  /\ J.phase = "post"
            /\ J.mode = "Init"
            /\ J.in.artifacts = <<>>
            /\ J.postFailed = ""
            /\ Len(PostBlob(J)) = 1
            /\ Resume(store).session = JSONParse(J.state.session)

====
